---------------------------- MODULE Spec2Model ----------------------------
(***************************************************************************)
(* A model of the Twilio media-stream bridge of                            *)
(* streaming_approach/gemini_approach/index.js: the mu-law codec, the      *)
(* adaptive silence detector, the inbound aggregator with its inactivity   *)
(* timer, and the cancellable playback loop, for one call on one socket.   *)
(*                                                                         *)
(* Node runs one handler at a time: every action below is the code that    *)
(* runs between two suspension points (an await of a network call or of    *)
(* the 20 ms pacing timer), so an action is atomic exactly where the       *)
(* JavaScript is.                                                          *)
(***************************************************************************)
EXTENDS Integers, Sequences, FiniteSets, TLC

(***************************************************************************)
(* Bounds of the model (not constants of the program).                     *)
(***************************************************************************)
\* decoded media frames per run of the general specification
MaxFrames == 2
\* inactivity-timer flushes (processAccumulatedAudio invocations) per run
MaxUtter == 2
\* whole 20 ms slices (320 bytes of PCM) in a synthesized reply
MaxWhole == 1
\* units per amplitude unit in which avgAmplitude and energies are held
AvgScale == 1000
\* media frames of the detector-only specification
MaxProbe == 3
\* 20 ms frames of the end-to-end scenario
MaxE2E == 16
\* playback invocations of the Deepgram + Mistral bridge
MaxDgJobs == 3
\* transcripts Deepgram delivers
MaxTranscripts == 2
\* media frames per call in the model of two calls
MaxCallFrames == 1
\* media events of the Deepgram + Mistral bridge
MaxDgFrames == 5
\* requests of Twilio to the non-streaming IVR
MaxRequests == 4
\* media frames of one utterance in the specification of the inactivity timeout
MaxSpeech == 40
\* the longest buffer handed to the buffer-level codec
MaxBufLen == 4
\* lines the logger appends to the log file
MaxLines == 2
\* polls of the log streamer that find the file grown
MaxReads == 2

VARIABLES
    \* ---- the per-call maps of index.js (lines 45-57), for the one call
    phase,                \* "idle" | "live" | "stopped": streamSidToCallSidMap and the per-call entries exist iff "live"
    conversationHistory,  \* sequence of [role, content]
    incomingAudioBuffers, \* the utterance buffer: sequence of decoded frames
    timeoutHandlers,      \* [armed, ms80, pending]: the timer of the handle, and how many timers are pending
    speakingState,        \* "undefined" | "true" | "false"
    audioQualityMetrics,  \* [avgAmplitude, adaptiveThreshold], in 1/AvgScale units
    \* ---- the socket and the far end
    wsOpen,               \* ws.readyState === WebSocket.OPEN
    pendingMarks,         \* marks sent to Twilio and not yet acknowledged
    \* ---- the asynchronous invocations in flight
    tasks,                \* task 0: greetingMessage; task k: the k-th flush
    nextTask,             \* number of the next flush
    frameCount,           \* media frames decoded so far (a frame's id is its number)
    lastFrame,            \* what the last media event did (observation)
    lastJob,              \* what the last streamAIResponseToTwilio to return did (observation)
    \* ---- the codec under test
    codec,                \* [path, stage, x, y, z]
    \* ---- two calls at once on the Gemini bridge
    calls,                \* [map, session, actor]: streamSidToCallSidMap and the per-call entries
    \* ---- two calls at once on the Deepgram + Mistral bridge
    dg,                   \* the module state of that bridge
    \* ---- the non-streaming IVR (Node_approach)
    ivr,                  \* [history, pending, last]: conversationHistory and the requests
    \* ---- the log streamer (Node_approach/log_streamer.js)
    streamer              \* the log file, one client of /stream and its reads in flight

vars == <<phase, conversationHistory, incomingAudioBuffers, timeoutHandlers,
          speakingState, audioQualityMetrics, wsOpen, pendingMarks, tasks,
          nextTask, frameCount, lastFrame, lastJob, codec, calls, dg, ivr, streamer>>

bridgeVars == <<phase, conversationHistory, incomingAudioBuffers, timeoutHandlers,
                speakingState, audioQualityMetrics, wsOpen, pendingMarks, tasks,
                nextTask, frameCount, lastFrame, lastJob>>

(***************************************************************************)
(* Bit operations of JavaScript on the non-negative values the codec uses. *)
(***************************************************************************)
Pow2(k) == 2 ^ k
Shl(x, k) == x * Pow2(k)
Shr(x, k) == x \div Pow2(k)
\* x & mask for a mask with one bit set
BitAnd1(x, mask) == ((x \div mask) % 2) * mask
\* ~x & 0xFF for x in 0..255
Inv8(x) == 255 - x
Max(a, b) == IF a >= b THEN a ELSE b
Min(a, b) == IF a <= b THEN a ELSE b
Abs(a) == IF a < 0 THEN -a ELSE a

BIAS == 132
CLIP == 32635

(***************************************************************************)
(* muLawToLinear, index.js 66-89.                                          *)
(***************************************************************************)
muLawToLinear(muLawByte) ==
    LET inv      == Inv8(muLawByte)
        sign     == IF BitAnd1(inv, 128) # 0 THEN -1 ELSE 1
        exponent == (inv \div 16) % 8
        mantissa == inv % 16
        linear   == IF exponent = 0
                    THEN Shl(mantissa, 4) + BIAS
                    ELSE Shl(mantissa + 16, exponent + 3) + BIAS
        signed   == sign * (linear - BIAS)
    IN  Max(-CLIP, Min(CLIP, signed))

(***************************************************************************)
(* linearToMuLaw, index.js 113-144 (the same text is unnamed/part_000      *)
(* 33-50).  ExponentLoop is the for loop of line 132.                      *)
(***************************************************************************)
RECURSIVE ExponentLoop(_, _, _)
ExponentLoop(sample, exponent, expMask) ==
    IF BitAnd1(sample, expMask) = 0 /\ exponent > 0
    THEN ExponentLoop(sample, exponent - 1, expMask \div 2)
    ELSE exponent

MantissaShift(exponent) == IF exponent = 0 THEN 4 ELSE exponent + 3

linearToMuLaw(sample0) ==
    LET clipped  == Max(-CLIP, Min(CLIP, sample0))
        sign     == IF clipped < 0 THEN 128 ELSE 0
        mag      == IF sign # 0 THEN -clipped ELSE clipped
        sample   == mag + BIAS
        exponent == ExponentLoop(sample, 7, 16384)
        mantissa == Shr(sample, MantissaShift(exponent)) % 16
    IN  Inv8(sign + Shl(exponent, 4) + mantissa)


(***************************************************************************)
(* pcmToMuLaw and chunkBuffer as the lengths they produce, index.js        *)
(* 152-178: Buffer.alloc(pcmBuffer.length / 2) truncates, and chunkBuffer  *)
(* pushes one slice per step of chunkSize.                                 *)
(***************************************************************************)
\* the slices taken from the PCM buffer itself, one byte per sample
pcmToMuLawLengthUnhalved(pcmLength) == pcmLength
pcmToMuLawLength(pcmLength) == pcmLength \div 2

RECURSIVE chunkBuffer(_, _, _)
chunkBuffer(length, chunkSize, i) ==
    IF i < length
    THEN <<Min(chunkSize, length - i)>> \o chunkBuffer(length, chunkSize, i + chunkSize)
    ELSE <<>>

\* audioChunks of streamAIResponseToTwilio, 616-617: the slice lengths
audioChunks(L) == chunkBuffer(pcmToMuLawLength(L), 160, 0)

(***************************************************************************)
(* Decoded audio.  A frame is held as what the code computes from its      *)
(* samples: its length in bytes, its RMS energy (in 1/AvgScale units) and  *)
(* how many samples of every 16 are non-zero (16: all, 1: every 16th,      *)
(* 0: none).                                                               *)
(***************************************************************************)
Bytes(buffer) ==
    LET RECURSIVE Sum(_)
        Sum(k) == IF k = 0 THEN 0 ELSE buffer[k].len + Sum(k - 1)
    IN  Sum(Len(buffer))

\* muLawToLinear16, 94-103: two bytes of PCM per mu-law byte
muLawToLinear16(payload, id) ==
    [id |-> id, len |-> payload.n * 2, rms |-> payload.rms, nz16 |-> payload.nz16]

(***************************************************************************)
(* improvedSilenceDetection, 259-307.  Returns the verdict and the new     *)
(* metrics.  avgAmplitude * 0.9 + energy * 0.1 is taken in 1/AvgScale      *)
(* units, rounded down to the unit.  maxAmplitude and sampleCount only     *)
(* feed the log line and are left out.                                     *)
(***************************************************************************)
\* line 291 without its lower clamp
adaptiveThresholdUnfloored(avg) == Min(1500 * AvgScale, avg \div 4)
\* line 291 without its upper clamp
adaptiveThresholdUncapped(avg) == Max(200 * AvgScale, avg \div 4)
adaptiveThresholdOf(avg) == Max(200 * AvgScale, Min(1500 * AvgScale, avg \div 4))

metricsUpdate(metrics, energy) ==
    IF ~metrics.defined
    THEN [defined |-> TRUE, avgAmplitude |-> energy,
          adaptiveThreshold |-> Max(300 * AvgScale, (energy * 3) \div 10)]
    ELSE LET avg == (metrics.avgAmplitude * 9 + energy) \div 10
         IN  [defined |-> TRUE, avgAmplitude |-> avg,
              adaptiveThreshold |-> adaptiveThresholdOf(avg)]

isSilentResult(energy, currentThreshold) == energy < currentThreshold

improvedSilenceDetection(buffer, metrics) ==
    IF buffer.len < 2
    THEN [silent |-> TRUE, metrics |-> metrics]
    ELSE LET m == metricsUpdate(metrics, buffer.rms)
         IN  [silent |-> isSilentResult(buffer.rms, m.adaptiveThreshold), metrics |-> m]

(***************************************************************************)
(* validateAudioQuality, 316-337: at least 1600 bytes, and at least 10% of *)
(* the samples of the first 3200 bytes non-zero.                           *)
(***************************************************************************)
RECURSIVE nonZeroSamples(_, _, _)
nonZeroSamples(buffer, k, left) ==
    IF k > Len(buffer) \/ left <= 0 THEN 0
    ELSE LET take == Min(buffer[k].len, left)
         IN  ((take \div 2) * buffer[k].nz16) \div 16
             + nonZeroSamples(buffer, k + 1, left - take)

\* lines 317-320 alone: the length, and no look at the samples
validateAudioQualityLengthOnly(buffer) == ~(Bytes(buffer) < 1600)
validateAudioQuality(buffer) ==
    IF Bytes(buffer) < 1600 THEN FALSE
    ELSE LET window == Min(Bytes(buffer), 3200)
         IN  ~(nonZeroSamples(buffer, 1, window) * 10 < window \div 2)

(***************************************************************************)
(* The asynchronous invocations.  Task 0 is greetingMessage, task k >= 1   *)
(* the k-th processAccumulatedAudio.  pc is the await the invocation is    *)
(* suspended at.                                                           *)
(***************************************************************************)
Tasks == 0 .. MaxUtter

IdleTask ==
    [pc |-> "idle",        \* "idle" | "gemini" | "synth" | "stream" | "done"
     apiCalls |-> 0,       \* axios.post calls to the Gemini endpoint
     apiArg |-> <<>>,      \* the audio passed to the one in flight
     synthCalls |-> 0,     \* axios.post calls to the Deepgram endpoint
     text |-> "none",      \* aiTextResponse / greetingText
     L |-> 0,              \* aiAudioBuffer.length
     i |-> 0,              \* the loop index of line 623
     sent |-> <<>>,        \* the slices sent, by index
     marks |-> 0,          \* 'tts_response_end' marks sent
     cancelled |-> FALSE,  \* the flag was cleared since this job set it
     barged |-> FALSE]     \* a non-empty response arrived while this job was streaming

NoFrame == [result |-> "none", streamSid |-> "none", kind |-> "none", len |-> 0, rms |-> 0,
            thrBefore |-> 0]
NoJob == [t |-> -1, L |-> 0, sent |-> <<>>, mark |-> FALSE, speaking |-> "undefined",
          open |-> FALSE]
NoTimer == [armed |-> FALSE, ms80 |-> 0, pending |-> 0]
NoMetrics == [defined |-> FALSE, avgAmplitude |-> 0, adaptiveThreshold |-> 0]
CodecIdle == [path |-> "none", stage |-> 0, x |-> 0, y |-> 0, z |-> 0]

(***************************************************************************)
(* Two calls at once.  A start event pairs its streamSid with the callSid  *)
(* of msg.start (684-689); each call has its own connection.               *)
(***************************************************************************)
OwnStream == "MZ-call"
StreamSids == {OwnStream, "MZ-other"}
CallSids == {"CA-call", "CA-other"}
streamOfCall(c) == IF c = "CA-call" THEN OwnStream ELSE "MZ-other"
callOfStream(s) == IF s = OwnStream THEN "CA-call" ELSE "CA-other"

\* the two invocations of streamAIResponseToTwilio a call of this model can have
JobNames == {"greeting", "reply"}

\* the entries of one callSid in the per-call maps of lines 45-57, with the
\* invocations started for it and what was sent on its connection
NoSession ==
    [phase |-> "idle",        \* as the variable phase
     turns |-> 0,             \* conversationHistory[callSid].length
     buffer |-> <<>>,         \* incomingAudioBuffers[callSid]
     armed |-> FALSE,         \* timeoutHandlers[callSid] is pending
     speaking |-> "undefined",
     metrics |-> NoMetrics,
     frames |-> 0,            \* media frames decoded
     jobs |-> [j \in JobNames |-> [pc |-> "idle", i |-> 0, L |-> 0]],
     out |-> 0,               \* media frames sent on the call's connection
     marks |-> 0]             \* marks sent and not acknowledged

CallsIdle ==
    [map |-> [s \in StreamSids |-> "undefined"],
     session |-> [c \in CallSids |-> NoSession],
     actor |-> "none"]        \* the call of the last event or continuation (observation)

(***************************************************************************)
(* The Deepgram + Mistral bridge (unnamed/part_000), two calls at once.    *)
(* Keys are the values callSid takes there: msg.callSid of the connected   *)
(* event, which may be absent, and the missing argument of line 272.       *)
(***************************************************************************)
Keys == CallSids \cup {"undefined"}
DgJobs == 0 .. MaxDgJobs - 1
\* an invocation of streamAIResponseToTwilio with its arguments (ws is named by the
\* call of the connection); a reply's invocation begins at the await of queryLLM.
\* In the loop, i is the slice last sent.  An invocation that returned is "done"
DgNoJob == [pc |-> "idle", kind |-> "none", ws |-> "none", streamSid |-> "none",
            callSid |-> "none", L |-> 0, i |-> 0, bargedIn |-> FALSE]
NoHandler == [ws |-> "none", callSid |-> "none"]
DgIdle ==
    [deepgram |-> "none",                               \* the socket of the last POST /
     posted |-> {},                                     \* calls that had their POST /
     onmessage |-> [c \in CallSids |-> NoHandler],      \* the closure each socket holds
     audio |-> [c \in CallSids |-> FALSE],              \* the socket was sent audio
     connected |-> {},                                  \* connections that had connected
     started |-> {},                                    \* connections that had start
     chunkKeys |-> <<>>,                                \* Object.keys(chunks)
     chunkCount |-> [s \in StreamSids |-> 0],           \* chunks[streamSid].length
     speakingState |-> [k \in Keys |-> "undefined"],
     partialTranscript |-> [k \in Keys |-> ""],
     timeoutHandlers |-> [k \in Keys |-> NoHandler],    \* the pending timer's closure
     jobs |-> [j \in DgJobs |-> DgNoJob],
     nextJob |-> 0,
     marks |-> [c \in CallSids |-> 0],                  \* marks sent, not acknowledged
     frames |-> 0,                                      \* media events taken
     transcripts |-> 0]                                 \* transcripts with words delivered

(***************************************************************************)
(* The non-streaming IVR, non_streaming_approach/Node_approach/logger.js.  *)
(* A text is a sequence of tokens, " " standing for white space.           *)
(***************************************************************************)
IvrCallSids == {"CA-call", "CA-other"}
\* 89, 100, 194
Apology == <<"I'm sorry, I couldn't process your request.">>
\* 66
Repeat == <<"I couldn't understand that. Could you please repeat?">>
NoResponse == [n |-> 0, route |-> "none", callSid |-> "none", SpeechResult |-> <<>>,
               llm |-> "none", say |-> <<>>, redirect |-> "none"]
IvrIdle ==
    [history |-> [c \in IvrCallSids |-> <<>>],   \* conversationHistory (40); <<>>: no entry
     pending |-> [c \in IvrCallSids |-> 0],      \* /process_speech awaiting queryLLM
     last |-> NoResponse]                        \* the last handler step (observation)

(***************************************************************************)
(* The log streamer, non_streaming_approach/Node_approach/log_streamer.js  *)
(* 52-94, for one client of /stream.  The log file is the sequence of its  *)
(* bytes: NL is the line feed, and line k is the bytes k, k, NL.  The file *)
(* only grows (it stays below the size at which the logger rotates it).    *)
(***************************************************************************)
NL == 0
Reads == 0 .. MaxReads - 1
\* a read stream of lines 68-85: start and end are its options, buffer its local
NoRead == [pc |-> "idle",     \* "idle" | "open" | "read" | "done"
           start |-> 0, end |-> 0, buffer |-> <<>>]
StreamerIdle ==
    [file |-> <<>>,                       \* logs/conversation.log
     appended |-> 0,                      \* lines appended so far
     client |-> "none",                   \* "none" | "open" | "closed"
     first |-> 0,                         \* the first line appended after the client connected
     lastSize |-> 0,                      \* 61
     reads |-> [r \in Reads |-> NoRead],
     nextRead |-> 0,
     out |-> <<>>]                        \* the lines written to the client, 82

BridgeInit ==
    /\ phase = "idle"
    /\ conversationHistory = <<>>
    /\ incomingAudioBuffers = <<>>
    /\ timeoutHandlers = NoTimer
    /\ speakingState = "undefined"
    /\ audioQualityMetrics = NoMetrics
    /\ wsOpen = TRUE
    /\ pendingMarks = 0
    /\ tasks = [t \in Tasks |-> IdleTask]
    /\ nextTask = 1
    /\ frameCount = 0
    /\ lastFrame = NoFrame
    /\ lastJob = NoJob

Init == BridgeInit /\ codec = CodecIdle /\ calls = CallsIdle /\ dg = DgIdle /\ ivr = IvrIdle /\ streamer = StreamerIdle

\* an invocation that has returned: its locals are gone, what it did outside is kept
DoneTask(task) ==
    [IdleTask EXCEPT !.pc = "done", !.apiCalls = task.apiCalls,
                     !.synthCalls = task.synthCalls, !.marks = task.marks]

\* every write of false (or delete) to speakingState cancels the jobs in their loop
CancelStreaming(ts) ==
    [u \in Tasks |-> IF ts[u].pc = "stream" THEN [ts[u] EXCEPT !.cancelled = TRUE] ELSE ts[u]]

(***************************************************************************)
(* streamAIResponseToTwilio, 603-656, from its call to its first await (or *)
(* its return): set the flag, encode, slice, enter the loop.               *)
(***************************************************************************)
\* lines 642-649: the mark (if still open and speaking), then the flag reset
\* the exit of the job without line 649: the flag is left as the job found it
streamFinishKeepsFlag(t, ts, speaking, open) ==
    LET mark == open /\ speaking = "true"
    IN  [tasks |-> [ts EXCEPT
                      ![t] = DoneTask([ts[t] EXCEPT
                                 !.marks = IF mark THEN ts[t].marks + 1 ELSE ts[t].marks])],
         speakingState |-> speaking,
         marksSent |-> IF mark THEN 1 ELSE 0,
         finished |-> TRUE,
         job |-> [t |-> t, L |-> ts[t].L, sent |-> ts[t].sent, mark |-> mark,
                  speaking |-> speaking, open |-> open]]

streamFinish(t, ts, speaking, open) ==
    LET mark == open /\ speaking = "true"
    IN  [tasks |-> [CancelStreaming(ts) EXCEPT
                      ![t] = DoneTask([ts[t] EXCEPT
                                 !.marks = IF mark THEN ts[t].marks + 1 ELSE ts[t].marks])],
         speakingState |-> "false",
         marksSent |-> IF mark THEN 1 ELSE 0,
         finished |-> TRUE,
         job |-> [t |-> t, L |-> ts[t].L, sent |-> ts[t].sent, mark |-> mark,
                  speaking |-> speaking, open |-> open]]

\* the loop with a check at line 626 of the flag alone
streamLoopAtFlagOnly(t, ts, i, speaking, open) ==
    IF i < Len(audioChunks(ts[t].L))
    THEN IF speaking # "true"
         THEN streamFinish(t, ts, speaking, open)
         ELSE [tasks |-> [ts EXCEPT ![t].pc = "stream", ![t].i = i,
                                    ![t].sent = Append(ts[t].sent, i)],
               speakingState |-> speaking,
               marksSent |-> 0,
               finished |-> FALSE,
               job |-> NoJob]
    ELSE streamFinish(t, ts, speaking, open)

\* lines 623-639 at loop index i: the check, then the send and the pacing await
streamLoopAt(t, ts, i, speaking, open) ==
    IF i < Len(audioChunks(ts[t].L))
    THEN IF speaking # "true" \/ ~open
         THEN streamFinish(t, ts, speaking, open)
         ELSE [tasks |-> [ts EXCEPT ![t].pc = "stream", ![t].i = i,
                                    ![t].sent = Append(ts[t].sent, i)],
               speakingState |-> speaking,
               marksSent |-> 0,
               finished |-> FALSE,
               job |-> NoJob]
    ELSE streamFinish(t, ts, speaking, open)

streamAIResponseToTwilio(t, ts, L, open) ==
    streamLoopAt(t, [ts EXCEPT ![t].L = L, ![t].cancelled = FALSE], 0, "true", open)

(***************************************************************************)
(* case "start", 682-709, with greetingMessage 860-872 up to its await of  *)
(* synthesizeWithDeepgram.                                                 *)
(***************************************************************************)
Start ==
    /\ wsOpen /\ phase = "idle"
    /\ phase' = "live"
    /\ conversationHistory' = <<[role |-> "assistant", content |-> "greeting"]>>
    /\ incomingAudioBuffers' = <<>>
    /\ speakingState' = "false"
    /\ audioQualityMetrics' = [defined |-> TRUE, avgAmplitude |-> 0,
                               adaptiveThreshold |-> 800 * AvgScale]
    /\ tasks' = [tasks EXCEPT ![0].pc = "synth", ![0].text = "greeting",
                               ![0].synthCalls = 1]
    /\ UNCHANGED <<timeoutHandlers, wsOpen, pendingMarks, nextTask, frameCount,
                   lastFrame, lastJob, codec, calls, dg, ivr, streamer>>

(***************************************************************************)
(* streamSidToCallSidMap, 53: the entry of the call's stream is inserted   *)
(* by start (689) and deleted by stop (813); no other stream has one.      *)
(***************************************************************************)
\* the lookup with a fallback to the call in progress for any stream
streamSidToCallSidMapAnyStream(streamSid, ph) ==
    IF ph = "live" THEN "CA-call" ELSE "undefined"
streamSidToCallSidMap(streamSid, ph) ==
    IF streamSid = OwnStream /\ ph = "live" THEN "CA-call" ELSE "undefined"

\* an event that was dropped: nothing but the record of the last inbound event
Dropped(what, streamSid) ==
    /\ lastFrame' = [NoFrame EXCEPT !.result = what, !.streamSid = streamSid]
    /\ UNCHANGED <<phase, conversationHistory, incomingAudioBuffers, timeoutHandlers,
                   speakingState, audioQualityMetrics, wsOpen, pendingMarks, tasks,
                   nextTask, frameCount, lastJob, codec, calls, dg, ivr, streamer>>

(***************************************************************************)
(* case "media", 712-776.  timeoutDuration is kept times 80:               *)
(* 500 + (bytes / 16000) * 200 = 500 + bytes / 80.                         *)
(***************************************************************************)
\* line 763 without its upper limit
timeoutDuration80Uncapped(bytes) == Max(800 * 80, 500 * 80 + bytes)
timeoutDuration80(bytes) == Max(800 * 80, Min(2000 * 80, 500 * 80 + bytes))

\* 746-752: a silent frame is skipped, any other is appended
\* lines 744-746 without the test of isSilent
appendFrameAlways(buffer, frame, silent) == Append(buffer, frame)
appendFrame(buffer, frame, silent) == IF silent THEN buffer ELSE Append(buffer, frame)

\* 746-748 and 756-769: a silent frame returns before the timer is touched; any
\* other clears the pending timer and arms one for the buffer as it now is
\* 757-759: clearTimeout of the handle cancels its timer if that is still pending
clearTimeout(timer) == IF timer.armed THEN timer.pending - 1 ELSE timer.pending

rearmTimerAlways(timer, buffer, silent) ==
    [armed |-> TRUE, ms80 |-> timeoutDuration80(Bytes(buffer)),
     pending |-> clearTimeout(timer) + 1]
\* the new timer set without the clearTimeout of 757-759
rearmTimerUncleared(timer, buffer, silent) ==
    IF silent THEN timer
    ELSE [armed |-> TRUE, ms80 |-> timeoutDuration80(Bytes(buffer)),
          pending |-> timer.pending + 1]
rearmTimer(timer, buffer, silent) ==
    IF silent THEN timer
    ELSE [armed |-> TRUE, ms80 |-> timeoutDuration80(Bytes(buffer)),
          pending |-> clearTimeout(timer) + 1]

\* line 726 with a test of the speaking flag added: no audio is taken during playback
validPayloadWhenQuiet(payload) ==
    payload.kind \in {"audio", "garbled"} /\ speakingState # "true"

\* line 726: the payload is a string and is not empty.  Buffer.from(s, "base64")
\* of line 735 never throws: of a string that is not base64 it decodes the
\* characters it can, and the n bytes it yields are taken as mu-law samples
validPayload(payload) == payload.kind \in {"audio", "garbled"}

Media(payload, streamSid) ==
    /\ wsOpen
    /\ IF streamSidToCallSidMap(streamSid, phase) = "undefined"
       THEN \* 717-720: no call for this stream
            /\ lastFrame' = [NoFrame EXCEPT !.result = "dropped", !.streamSid = streamSid]
            /\ UNCHANGED <<incomingAudioBuffers, timeoutHandlers, audioQualityMetrics,
                           frameCount>>
       ELSE IF ~validPayload(payload)
       THEN \* 726-729: not a string, or empty
            /\ lastFrame' = [NoFrame EXCEPT !.result = "invalid", !.streamSid = streamSid,
                                            !.kind = payload.kind]
            /\ UNCHANGED <<incomingAudioBuffers, timeoutHandlers, audioQualityMetrics,
                           frameCount>>
       ELSE LET audioBufferLinear16 == muLawToLinear16(payload, frameCount + 1)
                det == improvedSilenceDetection(audioBufferLinear16, audioQualityMetrics)
                buf == appendFrame(incomingAudioBuffers, audioBufferLinear16, det.silent)
            IN  /\ frameCount' = frameCount + 1
                /\ audioQualityMetrics' = det.metrics
                /\ lastFrame' = [result |-> IF det.silent THEN "silent" ELSE "appended",
                                 streamSid |-> streamSid,
                                 kind |-> payload.kind,
                                 len |-> audioBufferLinear16.len,
                                 rms |-> audioBufferLinear16.rms,
                                 thrBefore |-> audioQualityMetrics.adaptiveThreshold]
                /\ incomingAudioBuffers' = buf
                /\ timeoutHandlers' = rearmTimer(timeoutHandlers, buf, det.silent)
    /\ UNCHANGED <<phase, conversationHistory, speakingState, wsOpen, pendingMarks,
                   tasks, nextTask, lastJob, codec, calls, dg, ivr, streamer>>

(***************************************************************************)
(* The inactivity timer fires, 766-769: processAccumulatedAudio 530-554    *)
(* and geminiGenerateContent 350-448, up to the await of the API call.     *)
(***************************************************************************)
\* line 543 with the minimum of validateAudioQuality (1600) in place of 4800
processAccumulatedAudioFrom1600(t, ts, currentAudioSegment) ==
    IF Bytes(currentAudioSegment) = 0 \/ Bytes(currentAudioSegment) < 1600
    THEN [ts EXCEPT ![t] = DoneTask(ts[t])]
    ELSE IF ~validateAudioQuality(currentAudioSegment)
    THEN [ts EXCEPT ![t] = DoneTask(ts[t])]
    ELSE [ts EXCEPT ![t].pc = "gemini",
                    ![t].apiCalls = ts[t].apiCalls + 1,
                    ![t].apiArg = currentAudioSegment]

processAccumulatedAudio(t, ts, currentAudioSegment) ==
    IF Bytes(currentAudioSegment) = 0 \/ Bytes(currentAudioSegment) < 4800
    THEN [ts EXCEPT ![t] = DoneTask(ts[t])]
    ELSE IF ~validateAudioQuality(currentAudioSegment)
    THEN [ts EXCEPT ![t] = DoneTask(ts[t])]
    ELSE [ts EXCEPT ![t].pc = "gemini",
                    ![t].apiCalls = ts[t].apiCalls + 1,
                    ![t].apiArg = currentAudioSegment]

\* the flush with line 532 left out: the buffer is handed over and kept
TimerFireKeepsBuffer ==
    /\ timeoutHandlers.pending > 0
    /\ nextTask <= MaxUtter
    /\ timeoutHandlers' = [timeoutHandlers EXCEPT !.armed = FALSE,
                                                  !.pending = timeoutHandlers.pending - 1]
    /\ incomingAudioBuffers' = incomingAudioBuffers
    /\ tasks' = processAccumulatedAudio(nextTask, tasks, incomingAudioBuffers)
    /\ nextTask' = nextTask + 1
    /\ UNCHANGED <<phase, conversationHistory, speakingState, audioQualityMetrics,
                   wsOpen, pendingMarks, frameCount, lastFrame, lastJob, codec, calls, dg, ivr, streamer>>

TimerFire ==
    /\ timeoutHandlers.pending > 0
    /\ nextTask <= MaxUtter
    /\ timeoutHandlers' = [timeoutHandlers EXCEPT !.armed = FALSE,
                                                  !.pending = timeoutHandlers.pending - 1]
    /\ incomingAudioBuffers' = <<>>
    /\ tasks' = processAccumulatedAudio(nextTask, tasks, incomingAudioBuffers)
    /\ nextTask' = nextTask + 1
    /\ UNCHANGED <<phase, conversationHistory, speakingState, audioQualityMetrics,
                   wsOpen, pendingMarks, frameCount, lastFrame, lastJob, codec, calls, dg, ivr, streamer>>

(***************************************************************************)
(* The Gemini call settles, 466-494, and processAccumulatedAudio goes on,  *)
(* 556-578, to its await of synthesizeWithDeepgram.  text is the reply, "" *)
(* or the fixed apology (an error, or an unexpected response).             *)
(***************************************************************************)
bargeIn(ts, speaking) ==
    LET marked == [u \in Tasks |-> IF ts[u].pc = "stream"
                                   THEN [ts[u] EXCEPT !.barged = TRUE] ELSE ts[u]]
    IN  IF speaking = "true" THEN CancelStreaming(marked) ELSE marked

\* line 556 with the fixed apology of 478 and 493 taken as no response
hasResponseUnlessApology(aiTextResponse) == aiTextResponse \notin {"", "apology"}
\* line 556: aiTextResponse && aiTextResponse.trim().length > 0
hasResponse(aiTextResponse) == aiTextResponse # ""

\* 566-573 without the first push: the assistant's turn alone
pushTurnsReplyOnly(history, text) ==
    Append(history, [role |-> "assistant", content |-> text])
\* 566-573: the two pushes, with no await between them
pushTurns(history, text) ==
    history \o <<[role |-> "user", content |-> "User speech processed"],
                 [role |-> "assistant", content |-> text]>>

\* the barge-in of 560-563 done before the test of line 556
GeminiReturnsBargesFirst(t, text) ==
    /\ tasks[t].pc = "gemini"
    /\ IF text = ""
       THEN /\ tasks' = [bargeIn(tasks, speakingState) EXCEPT ![t] = DoneTask(tasks[t])]
            /\ speakingState' = IF speakingState = "true" THEN "false" ELSE speakingState
            /\ UNCHANGED conversationHistory
       ELSE /\ speakingState' = IF speakingState = "true" THEN "false" ELSE speakingState
            /\ IF phase # "live"
               THEN \* conversationHistory[callSid] is undefined: push throws, 588 catches
                    \* (the task keeps the text it was given, as an observation)
                    /\ tasks' = [bargeIn(tasks, speakingState) EXCEPT
                                    ![t] = [DoneTask(tasks[t]) EXCEPT !.text = text]]
                    /\ UNCHANGED conversationHistory
               ELSE /\ tasks' = [bargeIn(tasks, speakingState) EXCEPT
                                    ![t].pc = "synth", ![t].text = text,
                                    ![t].apiArg = <<>>,
                                    ![t].synthCalls = tasks[t].synthCalls + 1]
                    /\ conversationHistory' = conversationHistory \o
                          <<[role |-> "user", content |-> "User speech processed"],
                            [role |-> "assistant", content |-> text]>>
    /\ UNCHANGED <<phase, incomingAudioBuffers, timeoutHandlers, audioQualityMetrics,
                   wsOpen, pendingMarks, nextTask, frameCount, lastFrame, lastJob, codec, calls, dg, ivr, streamer>>

GeminiReturns(t, text) ==
    /\ tasks[t].pc = "gemini"
    /\ IF ~hasResponse(text)
       THEN /\ tasks' = [tasks EXCEPT ![t] = DoneTask(tasks[t])]
            /\ UNCHANGED <<speakingState, conversationHistory>>
       ELSE /\ speakingState' = IF speakingState = "true" THEN "false" ELSE speakingState
            /\ IF phase # "live"
               THEN \* conversationHistory[callSid] is undefined: push throws, 588 catches
                    \* (the task keeps the text it was given, as an observation)
                    /\ tasks' = [bargeIn(tasks, speakingState) EXCEPT
                                    ![t] = [DoneTask(tasks[t]) EXCEPT !.text = text]]
                    /\ UNCHANGED conversationHistory
               ELSE /\ tasks' = [bargeIn(tasks, speakingState) EXCEPT
                                    ![t].pc = "synth", ![t].text = text,
                                    ![t].apiArg = <<>>,
                                    ![t].synthCalls = tasks[t].synthCalls + 1]
                    /\ conversationHistory' = pushTurns(conversationHistory, text)
    /\ UNCHANGED <<phase, incomingAudioBuffers, timeoutHandlers, audioQualityMetrics,
                   wsOpen, pendingMarks, nextTask, frameCount, lastFrame, lastJob, codec, calls, dg, ivr, streamer>>

(***************************************************************************)
(* synthesizeWithDeepgram settles, 187-205: on success the caller (579 or  *)
(* 876) runs streamAIResponseToTwilio to its first await; on failure the   *)
(* caller's catch (580 or 877) logs.                                       *)
(***************************************************************************)
SynthReturns(t, L) ==
    /\ tasks[t].pc = "synth"
    /\ LET r == streamAIResponseToTwilio(t, tasks, L, wsOpen)
       IN  /\ tasks' = r.tasks
           /\ speakingState' = r.speakingState
           /\ pendingMarks' = pendingMarks + r.marksSent
           /\ lastJob' = IF r.finished THEN r.job ELSE lastJob
    /\ UNCHANGED <<phase, conversationHistory, incomingAudioBuffers, timeoutHandlers,
                   audioQualityMetrics, wsOpen, nextTask, frameCount, lastFrame, codec, calls, dg, ivr, streamer>>

\* the catch of line 580 calling synthesizeWithDeepgram once more
SynthFailsRetries(t) ==
    /\ tasks[t].pc = "synth"
    /\ tasks' = [tasks EXCEPT ![t].synthCalls = tasks[t].synthCalls + 1]
    /\ UNCHANGED <<phase, conversationHistory, incomingAudioBuffers, timeoutHandlers,
                   speakingState, audioQualityMetrics, wsOpen, pendingMarks, nextTask,
                   frameCount, lastFrame, lastJob, codec, calls, dg, ivr, streamer>>

\* the failure handled with the flag of line 612 already set
SynthFailsSpeaking(t) ==
    /\ tasks[t].pc = "synth"
    /\ tasks' = [tasks EXCEPT ![t] = DoneTask(tasks[t])]
    /\ speakingState' = "true"
    /\ UNCHANGED <<phase, conversationHistory, incomingAudioBuffers, timeoutHandlers,
                   audioQualityMetrics, wsOpen, pendingMarks, nextTask,
                   frameCount, lastFrame, lastJob, codec, calls, dg, ivr, streamer>>

SynthFails(t) ==
    /\ tasks[t].pc = "synth"
    /\ tasks' = [tasks EXCEPT ![t] = DoneTask(tasks[t])]
    /\ UNCHANGED <<phase, conversationHistory, incomingAudioBuffers, timeoutHandlers,
                   speakingState, audioQualityMetrics, wsOpen, pendingMarks, nextTask,
                   frameCount, lastFrame, lastJob, codec, calls, dg, ivr, streamer>>

(***************************************************************************)
(* The 20 ms pacing timer of line 638 fires: i++, and the loop goes on.    *)
(***************************************************************************)
StreamStep(t) ==
    /\ tasks[t].pc = "stream"
    /\ LET r == streamLoopAt(t, tasks, tasks[t].i + 1, speakingState, wsOpen)
       IN  /\ tasks' = r.tasks
           /\ speakingState' = r.speakingState
           /\ pendingMarks' = pendingMarks + r.marksSent
           /\ lastJob' = IF r.finished THEN r.job ELSE lastJob
    /\ UNCHANGED <<phase, conversationHistory, incomingAudioBuffers, timeoutHandlers,
                   audioQualityMetrics, wsOpen, nextTask, frameCount, lastFrame, codec, calls, dg, ivr, streamer>>

(***************************************************************************)
(* case "mark", 779-791: Twilio acknowledges a mark this side sent.        *)
(***************************************************************************)
MarkAck ==
    /\ wsOpen /\ pendingMarks > 0
    /\ pendingMarks' = pendingMarks - 1
    /\ IF streamSidToCallSidMap(OwnStream, phase) # "undefined"
       THEN /\ speakingState' = "false"
            /\ tasks' = CancelStreaming(tasks)
       ELSE UNCHANGED <<speakingState, tasks>>
    /\ UNCHANGED <<phase, conversationHistory, incomingAudioBuffers, timeoutHandlers,
                   audioQualityMetrics, wsOpen, nextTask, frameCount, lastFrame, lastJob, codec, calls, dg, ivr, streamer>>

\* a mark event naming a stream that no start announced, 781-785
UnknownMark(streamSid) ==
    /\ wsOpen /\ streamSid # OwnStream
    /\ IF streamSidToCallSidMap(streamSid, phase) = "undefined"
       THEN Dropped("dropped-mark", streamSid)
       ELSE /\ speakingState' = "false"
            /\ tasks' = CancelStreaming(tasks)
            /\ lastFrame' = [NoFrame EXCEPT !.result = "mark", !.streamSid = streamSid]
            /\ UNCHANGED <<phase, conversationHistory, incomingAudioBuffers,
                           timeoutHandlers, audioQualityMetrics, wsOpen, pendingMarks,
                           nextTask, frameCount, lastJob, codec, calls, dg, ivr, streamer>>

(***************************************************************************)
(* case "stop", 794-814.                                                   *)
(***************************************************************************)
\* 800-810: the entries of callSid are deleted
stopCleanup ==
    /\ phase' = "stopped"
    /\ timeoutHandlers' = NoTimer
    /\ conversationHistory' = <<>>
    /\ incomingAudioBuffers' = <<>>
    /\ speakingState' = "undefined"
    /\ audioQualityMetrics' = NoMetrics
    /\ tasks' = CancelStreaming(tasks)

Stop ==
    /\ wsOpen /\ phase = "live"
    /\ stopCleanup
    /\ UNCHANGED <<wsOpen, pendingMarks, nextTask, frameCount, lastFrame, lastJob, codec, calls, dg, ivr, streamer>>

\* a stop event naming a stream that no start announced (or a second stop), 796-798
\* and 813
UnknownStop(streamSid) ==
    /\ wsOpen /\ (streamSid # OwnStream \/ phase = "stopped")
    /\ IF streamSidToCallSidMap(streamSid, phase) = "undefined"
       THEN Dropped("dropped-stop", streamSid)
       ELSE /\ stopCleanup
            /\ lastFrame' = [NoFrame EXCEPT !.result = "stop", !.streamSid = streamSid]
            /\ UNCHANGED <<wsOpen, pendingMarks, nextTask, frameCount, lastJob, codec, calls, dg, ivr, streamer>>

(***************************************************************************)
(* ws.on("close"), 826-828: the handler only logs.                         *)
(***************************************************************************)
WsClose ==
    /\ wsOpen
    /\ wsOpen' = FALSE
    /\ UNCHANGED <<phase, conversationHistory, incomingAudioBuffers, timeoutHandlers,
                   speakingState, audioQualityMetrics, pendingMarks, tasks, nextTask,
                   frameCount, lastFrame, lastJob, codec, calls, dg, ivr, streamer>>

(***************************************************************************)
(* The environment of the general specification.                           *)
(***************************************************************************)
\* a 20 ms frame is 160 mu-law bytes; a 300 ms one 2400
Loud == 8192 * AvgScale
AudioPayloads ==
    { [kind |-> "audio", n |-> c[1], rms |-> c[2], nz16 |-> c[3]] :
        c \in {<<160, 0, 0>>, <<160, Loud, 16>>, <<2400, Loud, 16>>, <<2400, Loud, 1>>} }
\* a payload that is no string or is "", and a string that is not base64, such as
\* "AAAA*", which decodes to three bytes 0x00 (the sample -31744 each)
BadPayloads ==
    { [kind |-> "empty", n |-> 0, rms |-> 0, nz16 |-> 0],
      [kind |-> "garbled", n |-> 3, rms |-> 31744 * AvgScale, nz16 |-> 16] }
Payloads == AudioPayloads \cup BadPayloads

\* an empty reply, or MaxWhole whole 20 ms slices and one more sample (and an odd byte)
SynthLengths == {0, 320 * MaxWhole + 3}
Replies == {"reply", "", "apology"}

Next ==
    \/ Start
    \/ \E payload \in Payloads, streamSid \in StreamSids :
          frameCount < MaxFrames /\ Media(payload, streamSid)
    \/ TimerFire
    \/ \E t \in Tasks, text \in Replies : GeminiReturns(t, text)
    \/ \E t \in Tasks, L \in SynthLengths : SynthReturns(t, L)
    \/ \E t \in Tasks : SynthFails(t)
    \/ \E t \in Tasks : StreamStep(t)
    \/ MarkAck
    \/ Stop
    \/ \E streamSid \in StreamSids : UnknownMark(streamSid)
    \/ \E streamSid \in StreamSids : UnknownStop(streamSid)
    \/ WsClose

Spec == Init /\ [][Next]_vars

(***************************************************************************)
(* The codec on its own: every int16 sample is encoded and decoded back,   *)
(* every byte is decoded and encoded back.                                 *)
(***************************************************************************)
CodecInit ==
    /\ BridgeInit /\ calls = CallsIdle /\ dg = DgIdle /\ ivr = IvrIdle /\ streamer = StreamerIdle
    /\ codec \in { [path |-> "pcm", stage |-> 0, x |-> v, y |-> 0, z |-> 0] :
                     v \in -32768 .. 32767 }
            \cup { [path |-> "mu", stage |-> 0, x |-> v, y |-> 0, z |-> 0] :
                     v \in 0 .. 255 }

\* pcmToMuLaw, 152-162, on one sample
EncodeSample ==
    /\ codec.path = "pcm" /\ codec.stage = 0
    /\ codec' = [codec EXCEPT !.stage = 1, !.y = linearToMuLaw(codec.x)]
    /\ UNCHANGED <<bridgeVars, calls, dg, ivr, streamer>>

\* muLawToLinear16, 94-103, on the byte just encoded
DecodeBack ==
    /\ codec.path = "pcm" /\ codec.stage = 1
    /\ codec' = [codec EXCEPT !.stage = 2, !.z = muLawToLinear(codec.y)]
    /\ UNCHANGED <<bridgeVars, calls, dg, ivr, streamer>>

\* muLawToLinear16, 94-103, on one byte
DecodeByte ==
    /\ codec.path = "mu" /\ codec.stage = 0
    /\ codec' = [codec EXCEPT !.stage = 1, !.y = muLawToLinear(codec.x)]
    /\ UNCHANGED <<bridgeVars, calls, dg, ivr, streamer>>

\* pcmToMuLaw, 152-162, on the sample just decoded
EncodeBack ==
    /\ codec.path = "mu" /\ codec.stage = 1
    /\ codec' = [codec EXCEPT !.stage = 2, !.z = linearToMuLaw(codec.y)]
    /\ UNCHANGED <<bridgeVars, calls, dg, ivr, streamer>>

CodecNext == EncodeSample \/ DecodeBack \/ DecodeByte \/ EncodeBack

CodecSpec == CodecInit /\ [][CodecNext]_vars

(***************************************************************************)
(* The media handler under frames of many energies, among them the frame   *)
(* whose RMS is five times the threshold in force, and no timer firing.    *)
(***************************************************************************)
ProbeLevels == {0, 100, 250, 1000, 3000, 8192, 32767}

ProbePayloads ==
    { [kind |-> "audio", n |-> 160, rms |-> r, nz16 |-> IF r = 0 THEN 0 ELSE 16] :
        r \in { v * AvgScale : v \in ProbeLevels }
              \cup { 5 * audioQualityMetrics.adaptiveThreshold } }

SilenceNext ==
    \/ Start
    \/ \E payload \in ProbePayloads : frameCount < MaxProbe /\ Media(payload, OwnStream)

SilenceSpec == Init /\ [][SilenceNext]_vars

(***************************************************************************)
(* One playback job (the greeting's) over every reply length up to         *)
(* MaxWhole + 1 slices, with the socket closing, the call stopping and     *)
(* the mark coming back at any point.                                      *)
(***************************************************************************)
PlaybackLengths == 0 .. 320 * (MaxWhole + 1) + 3

PlaybackNext ==
    \/ Start
    \/ \E L \in PlaybackLengths : SynthReturns(0, L)
    \/ StreamStep(0)
    \/ MarkAck
    \/ Stop
    \/ WsClose

PlaybackSpec == Init /\ [][PlaybackNext]_vars

(***************************************************************************)
(* The end-to-end scenario: a start, then 20 ms non-silent frames, then    *)
(* the inactivity timer; the collaborators answer, the socket stays open   *)
(* and the call is not stopped.  The frames of one run are all alike: all  *)
(* samples non-zero, or every 16th.                                        *)
(***************************************************************************)
E2EPayloads ==
    { [kind |-> "audio", n |-> 160, rms |-> Loud, nz16 |-> d] : d \in {16, 1} }

E2ENext ==
    \/ Start
    \/ \E payload \in E2EPayloads :
          /\ nextTask = 1 /\ frameCount < MaxE2E
          /\ incomingAudioBuffers # <<>> => incomingAudioBuffers[1].nz16 = payload.nz16
          /\ Media(payload, OwnStream)
    \/ TimerFire
    \/ \E t \in Tasks : GeminiReturns(t, "reply")
    \/ \E t \in Tasks, L \in SynthLengths : SynthReturns(t, L)
    \/ \E t \in Tasks : StreamStep(t)
    \/ MarkAck

E2ESpec == Init /\ [][E2ENext]_vars

(***************************************************************************)
(* One long utterance: frames of speech of one size (20 ms, 300 ms or 1 s  *)
(* of mu-law), with no pause that would let the inactivity timer fire.     *)
(***************************************************************************)
SpeechPayloads ==
    { [kind |-> "audio", n |-> n, rms |-> Loud, nz16 |-> 16] : n \in {160, 2400, 8000} }

SpeechNext ==
    \/ Start
    \/ \E payload \in SpeechPayloads :
          /\ frameCount < MaxSpeech
          /\ incomingAudioBuffers # <<>> => incomingAudioBuffers[1].len = payload.n * 2
          /\ Media(payload, OwnStream)

SpeechSpec == Init /\ [][SpeechNext]_vars

(***************************************************************************)
(* Two calls at once on the Gemini bridge.  Every handler of incoming,     *)
(* 667-816, and every continuation reaches the per-call maps through one   *)
(* callSid: that of msg.start (684), the entry of streamSidToCallSidMap    *)
(* for msg.streamSid (714, 781, 796), or the callSid its closure was       *)
(* given (530, 603, 766, 860).  The operators below are those handlers on  *)
(* the entries e of one callSid.  Each call's events arrive on its own     *)
(* connection and carry its own streamSid; the connections stay open.      *)
(***************************************************************************)
\* 714, 781, 796 with the entry of some other stream that has one
lookupCallSidOfAnyStream(map, streamSid) ==
    IF \E s \in StreamSids \ {streamSid} : map[s] # "undefined"
    THEN map[CHOOSE s \in StreamSids \ {streamSid} : map[s] # "undefined"]
    ELSE map[streamSid]

lookupCallSid(map, streamSid) == map[streamSid]

\* 691-709, and greetingMessage to its await
sessionStart(e) ==
    [e EXCEPT !.phase = "live", !.turns = 1, !.buffer = <<>>, !.speaking = "false",
              !.metrics = [defined |-> TRUE, avgAmplitude |-> 0,
                           adaptiveThreshold |-> 800 * AvgScale],
              !.jobs["greeting"].pc = "synth"]

\* 722-769
sessionMedia(e, payload) ==
    IF ~validPayload(payload) THEN e
    ELSE LET audioBufferLinear16 == muLawToLinear16(payload, e.frames + 1)
             det == improvedSilenceDetection(audioBufferLinear16, e.metrics)
         IN  [e EXCEPT !.frames = e.frames + 1,
                       !.metrics = det.metrics,
                       !.buffer = appendFrame(e.buffer, audioBufferLinear16, det.silent),
                       !.armed = IF det.silent THEN e.armed ELSE TRUE]

\* 787-788
sessionMark(e) == [e EXCEPT !.speaking = "false", !.marks = e.marks - 1]

\* 800-810
sessionStop(e) ==
    [e EXCEPT !.phase = "stopped", !.armed = FALSE, !.turns = 0, !.buffer = <<>>,
              !.speaking = "undefined", !.metrics = NoMetrics]

\* 766-769 and 530-554
sessionFlush(e) ==
    LET ok == ~(Bytes(e.buffer) = 0 \/ Bytes(e.buffer) < 4800)
              /\ validateAudioQuality(e.buffer)
    IN  [e EXCEPT !.armed = FALSE, !.buffer = <<>>,
                  !.jobs["reply"].pc = IF ok THEN "gemini" ELSE "done"]

\* 556-578
sessionReply(e, text) ==
    IF text = "" THEN [e EXCEPT !.jobs["reply"].pc = "done"]
    ELSE LET f == [e EXCEPT !.speaking = IF e.speaking = "true" THEN "false"
                                         ELSE e.speaking]
         IN  IF e.phase # "live"
             THEN [f EXCEPT !.jobs["reply"].pc = "done"]
             ELSE [f EXCEPT !.jobs["reply"].pc = "synth", !.turns = e.turns + 2]

\* 642-649
sessionFinish(e, j) ==
    [e EXCEPT !.jobs[j].pc = "done",
              !.marks = IF e.speaking = "true" THEN e.marks + 1 ELSE e.marks,
              !.speaking = "false"]

\* 623-639 at loop index i
sessionLoop(e, j, i) ==
    IF i < Len(audioChunks(e.jobs[j].L)) /\ e.speaking = "true"
    THEN [e EXCEPT !.jobs[j].pc = "stream", !.jobs[j].i = i, !.out = e.out + 1]
    ELSE sessionFinish(e, j)

\* 603-621
sessionPlay(e, j, L) ==
    sessionLoop([e EXCEPT !.speaking = "true", !.jobs[j].L = L], j, 0)

\* the event of stream streamSid handled on the entries of the callSid found for it
CallsHandled(streamSid, callSid, e) ==
    calls' = [calls EXCEPT !.session[callSid] = e, !.actor = callOfStream(streamSid)]

\* 717-720, 782-785, 796-798: no callSid for the stream
CallsDropped(streamSid) ==
    calls' = [calls EXCEPT !.actor = callOfStream(streamSid)]

CallsStart(callSid) ==
    /\ calls.session[callSid].phase = "idle"
    /\ calls' = [calls EXCEPT !.map[streamOfCall(callSid)] = callSid,
                              !.session[callSid] = sessionStart(calls.session[callSid]),
                              !.actor = callSid]
    /\ UNCHANGED <<bridgeVars, codec, dg, ivr, streamer>>

CallsMedia(streamSid, payload) ==
    /\ calls.session[callOfStream(streamSid)].frames < MaxCallFrames
    /\ LET callSid == lookupCallSid(calls.map, streamSid)
       IN  IF callSid = "undefined" THEN CallsDropped(streamSid)
           ELSE CallsHandled(streamSid, callSid,
                             sessionMedia(calls.session[callSid], payload))
    /\ UNCHANGED <<bridgeVars, codec, dg, ivr, streamer>>

CallsMark(streamSid) ==
    /\ calls.session[callOfStream(streamSid)].marks > 0
    /\ LET callSid == lookupCallSid(calls.map, streamSid)
       IN  IF callSid = "undefined" THEN CallsDropped(streamSid)
           ELSE CallsHandled(streamSid, callSid, sessionMark(calls.session[callSid]))
    /\ UNCHANGED <<bridgeVars, codec, dg, ivr, streamer>>

CallsStop(streamSid) ==
    /\ calls.session[callOfStream(streamSid)].phase = "live"
    /\ LET callSid == lookupCallSid(calls.map, streamSid)
       IN  IF callSid = "undefined" THEN CallsDropped(streamSid)
           ELSE calls' = [calls EXCEPT
                             !.session[callSid] = sessionStop(calls.session[callSid]),
                             !.map[streamSid] = "undefined",
                             !.actor = callOfStream(streamSid)]
    /\ UNCHANGED <<bridgeVars, codec, dg, ivr, streamer>>

\* the continuations: each runs with the callSid its closure holds
CallsTimer(callSid) ==
    /\ calls.session[callSid].armed
    /\ calls.session[callSid].jobs["reply"].pc = "idle"
    /\ calls' = [calls EXCEPT !.session[callSid] = sessionFlush(calls.session[callSid]),
                              !.actor = callSid]
    /\ UNCHANGED <<bridgeVars, codec, dg, ivr, streamer>>

CallsGemini(callSid, text) ==
    /\ calls.session[callSid].jobs["reply"].pc = "gemini"
    /\ calls' = [calls EXCEPT
                    !.session[callSid] = sessionReply(calls.session[callSid], text),
                    !.actor = callSid]
    /\ UNCHANGED <<bridgeVars, codec, dg, ivr, streamer>>

CallsSynth(callSid, j, L) ==
    /\ calls.session[callSid].jobs[j].pc = "synth"
    /\ calls' = [calls EXCEPT
                    !.session[callSid] = sessionPlay(calls.session[callSid], j, L),
                    !.actor = callSid]
    /\ UNCHANGED <<bridgeVars, codec, dg, ivr, streamer>>

CallsStep(callSid, j) ==
    /\ calls.session[callSid].jobs[j].pc = "stream"
    /\ calls' = [calls EXCEPT
                    !.session[callSid] = sessionLoop(calls.session[callSid], j,
                                              calls.session[callSid].jobs[j].i + 1),
                    !.actor = callSid]
    /\ UNCHANGED <<bridgeVars, codec, dg, ivr, streamer>>

\* a 300 ms frame of speech and a 20 ms frame of silence
CallPayloads ==
    { [kind |-> "audio", n |-> 2400, rms |-> Loud, nz16 |-> 16],
      [kind |-> "audio", n |-> 160, rms |-> 0, nz16 |-> 0] }

TwoCallNext ==
    \/ \E callSid \in CallSids : CallsStart(callSid)
    \/ \E streamSid \in StreamSids, payload \in CallPayloads : CallsMedia(streamSid, payload)
    \/ \E streamSid \in StreamSids : CallsMark(streamSid)
    \/ \E streamSid \in StreamSids : CallsStop(streamSid)
    \/ \E callSid \in CallSids : CallsTimer(callSid)
    \/ \E callSid \in CallSids, text \in {"reply", ""} : CallsGemini(callSid, text)
    \/ \E callSid \in CallSids, j \in JobNames : CallsSynth(callSid, j, 320 * MaxWhole + 3)
    \/ \E callSid \in CallSids, j \in JobNames : CallsStep(callSid, j)

TwoCallSpec == Init /\ [][TwoCallNext]_vars

(***************************************************************************)
(* The Deepgram + Mistral bridge, unnamed/part_000, with two calls active  *)
(* at once.  Its module state (26-31) is in dg.  Twilio requests POST /    *)
(* for a call, then opens the call's connection and sends connected,       *)
(* start and media on it; the connections stay open and no call ends.      *)
(***************************************************************************)
\* 234-242: a new socket to Deepgram, open, takes the place of the last one
DgPost(c) ==
    /\ c \notin dg.posted
    /\ dg' = [dg EXCEPT !.deepgram = c, !.posted = dg.posted \cup {c}]
    /\ UNCHANGED <<bridgeVars, codec, calls, ivr, streamer>>

\* 138-184: callSid is msg.callSid, absent from the event or given in it
DgConnected(c, callSid) ==
    /\ dg.deepgram # "none" /\ c \in dg.posted /\ c \notin dg.connected
    /\ dg' = [dg EXCEPT !.connected = dg.connected \cup {c},
                        !.partialTranscript[callSid] = "",
                        !.onmessage[dg.deepgram] = [ws |-> c, callSid |-> callSid]]
    /\ UNCHANGED <<bridgeVars, codec, calls, ivr, streamer>>

\* 90-94: the flag, then the await of synthesizeWithDeepgram
dgSpeak(d, j, kind, ws, streamSid, callSid) ==
    [d EXCEPT !.speakingState[callSid] = "true",
              !.jobs[j] = [DgNoJob EXCEPT !.pc = "synth", !.kind = kind, !.ws = ws,
                                          !.streamSid = streamSid, !.callSid = callSid]]

\* 186-189 and greetingMessage 270-273: no callSid is passed on
DgStart(c) ==
    /\ dg.deepgram # "none" /\ c \in dg.connected /\ c \notin dg.started
    /\ dg.nextJob < MaxDgJobs
    /\ dg' = [dgSpeak(dg, dg.nextJob, "greeting", c, streamOfCall(c), "undefined")
                EXCEPT !.started = dg.started \cup {c}, !.nextJob = dg.nextJob + 1]
    /\ UNCHANGED <<bridgeVars, codec, calls, ivr, streamer>>

\* 191-213
DgMedia(c) ==
    LET streamSid == streamOfCall(c)
        keys == IF \E k \in 1 .. Len(dg.chunkKeys) : dg.chunkKeys[k] = streamSid
                THEN dg.chunkKeys ELSE Append(dg.chunkKeys, streamSid)
        n == dg.chunkCount[streamSid] + 1
    IN  /\ dg.deepgram # "none" /\ c \in dg.started
        /\ dg.frames < MaxDgFrames
        /\ dg' = [dg EXCEPT !.chunkKeys = keys,
                            !.chunkCount[streamSid] = IF n >= 5 THEN 0 ELSE n,
                            !.audio[dg.deepgram] = dg.audio[dg.deepgram] \/ n >= 5,
                            !.frames = dg.frames + 1]
        /\ UNCHANGED <<bridgeVars, codec, calls, ivr, streamer>>

\* 215-220: callSid is msg.callSid of the mark event
DgMark(c, callSid) ==
    /\ dg.deepgram # "none" /\ dg.marks[c] > 0
    /\ dg' = [dg EXCEPT !.marks[c] = dg.marks[c] - 1,
                        !.speakingState[callSid] = "false"]
    /\ UNCHANGED <<bridgeVars, codec, calls, ivr, streamer>>

\* 146-183: a result of socket sock reaches the closure set on it
DgTranscript(sock, transcript) ==
    LET h == dg.onmessage[sock]
    IN  /\ h # NoHandler /\ dg.audio[sock]
        /\ dg.transcripts < MaxTranscripts
        /\ IF transcript = ""
           THEN dg' = dg
           ELSE dg' = [dg EXCEPT
                  !.transcripts = dg.transcripts + 1,
                  !.speakingState[h.callSid] =
                      IF dg.speakingState[h.callSid] = "true" THEN "false"
                      ELSE dg.speakingState[h.callSid],
                  !.partialTranscript[h.callSid] = "text",
                  !.timeoutHandlers[h.callSid] = h,
                  !.jobs = [j \in DgJobs |->
                              IF dg.jobs[j].pc = "stream" /\ dg.jobs[j].ws = h.ws
                              THEN [dg.jobs[j] EXCEPT !.bargedIn = TRUE]
                              ELSE dg.jobs[j]]]
        /\ UNCHANGED <<bridgeVars, codec, calls, ivr, streamer>>

\* 168-173: the 2000 ms timer fires, to the await of queryLLM
DgTimerFire(callSid) ==
    LET h == dg.timeoutHandlers[callSid]
    IN  /\ h # NoHandler
        /\ dg.nextJob < MaxDgJobs
        /\ IF dg.partialTranscript[callSid] = ""
           THEN dg' = [dg EXCEPT !.timeoutHandlers[callSid] = NoHandler]
           ELSE dg' = [dg EXCEPT !.timeoutHandlers[callSid] = NoHandler,
                                 !.nextJob = dg.nextJob + 1,
                                 !.jobs[dg.nextJob] =
                                     [DgNoJob EXCEPT !.pc = "llm", !.kind = "reply",
                                                     !.ws = h.ws, !.callSid = callSid]]
        /\ UNCHANGED <<bridgeVars, codec, calls, ivr, streamer>>

\* 173-176: queryLLM settles; the stream is the first key of chunks
DgLLMReturns(j) ==
    /\ dg.jobs[j].pc = "llm"
    /\ dg' = dgSpeak(dg, j, "reply", dg.jobs[j].ws,
                     IF dg.chunkKeys = <<>> THEN "undefined" ELSE dg.chunkKeys[1],
                     dg.jobs[j].callSid)
    /\ UNCHANGED <<bridgeVars, codec, calls, ivr, streamer>>

\* 96: slices of 320 bytes
dgChunks(L) == Len(chunkBuffer(pcmToMuLawLength(L), 320, 0))

\* 114-119, and 178 after a reply
dgFinish(d, j) ==
    LET job == d.jobs[j]
        mark == d.speakingState[job.callSid] = "true"
        e == [d EXCEPT !.speakingState[job.callSid] = "false",
                       !.marks[job.ws] = IF mark THEN d.marks[job.ws] + 1
                                         ELSE d.marks[job.ws],
                       !.jobs[j] = [DgNoJob EXCEPT !.pc = "done"]]
    IN  IF job.kind = "reply" THEN [e EXCEPT !.partialTranscript[job.callSid] = ""]
        ELSE e

\* 100-112 at the i-th slice
dgLoop(d, j, i) ==
    IF i < dgChunks(d.jobs[j].L) /\ d.speakingState[d.jobs[j].callSid] = "true"
    THEN [d EXCEPT !.jobs[j].pc = "stream", !.jobs[j].i = i]
    ELSE dgFinish(d, j)

DgSynthReturns(j, L) ==
    /\ dg.jobs[j].pc = "synth"
    /\ dg' = dgLoop([dg EXCEPT !.jobs[j].L = L], j, 0)
    /\ UNCHANGED <<bridgeVars, codec, calls, ivr, streamer>>

\* 121-124, and 178 after a reply
DgSynthFails(j) ==
    /\ dg.jobs[j].pc = "synth"
    /\ dg' = [dg EXCEPT
                !.speakingState[dg.jobs[j].callSid] = "false",
                !.partialTranscript[dg.jobs[j].callSid] =
                    IF dg.jobs[j].kind = "reply" THEN ""
                    ELSE dg.partialTranscript[dg.jobs[j].callSid],
                !.jobs[j] = [DgNoJob EXCEPT !.pc = "done"]]
    /\ UNCHANGED <<bridgeVars, codec, calls, ivr, streamer>>

\* the 20 ms wait of line 111 is over
DgStep(j) ==
    /\ dg.jobs[j].pc = "stream"
    /\ dg' = dgLoop(dg, j, dg.jobs[j].i + 1)
    /\ UNCHANGED <<bridgeVars, codec, calls, ivr, streamer>>

DgNext ==
    \/ \E c \in CallSids : DgPost(c)
    \/ \E c \in CallSids : \E callSid \in {c, "undefined"} : DgConnected(c, callSid)
    \/ \E c \in CallSids : DgStart(c)
    \/ \E c \in CallSids : DgMedia(c)
    \/ \E c \in CallSids : \E callSid \in {c, "undefined"} : DgMark(c, callSid)
    \/ \E sock \in CallSids, transcript \in {"", "text"} : DgTranscript(sock, transcript)
    \/ \E callSid \in Keys : DgTimerFire(callSid)
    \/ \E j \in DgJobs : DgLLMReturns(j)
    \/ \E j \in DgJobs : DgSynthReturns(j, 640 * MaxWhole + 2)
    \/ \E j \in DgJobs : DgSynthFails(j)
    \/ \E j \in DgJobs : DgStep(j)

DgSpec == Init /\ [][DgNext]_vars

(***************************************************************************)
(* The non-streaming IVR, logger.js 42-197.  A request of Twilio runs its  *)
(* handler to the response, or to the await of queryLLM (79).              *)
(***************************************************************************)
\* String.prototype.trim without the removal of white space at the ends
trimNothing(text) == text
RECURSIVE trimStart(_)
trimStart(text) ==
    IF text # <<>> /\ Head(text) = " " THEN trimStart(Tail(text)) ELSE text
RECURSIVE trimEnd(_)
trimEnd(text) ==
    IF text # <<>> /\ text[Len(text)] = " " THEN trimEnd(SubSeq(text, 1, Len(text) - 1))
    ELSE text
trim(text) == trimEnd(trimStart(text))

\* line 100 with the last entry's content taken as it is
lastResponseOfEntry(history) ==
    IF history = <<>> THEN Apology ELSE history[Len(history)].content
\* line 100: conversationHistory[callSid]?.at(-1)?.content || the apology
lastResponseOf(history) ==
    IF history = <<>> \/ history[Len(history)].content = <<>> THEN Apology
    ELSE history[Len(history)].content

\* 131-197: what queryLLM returns
queryLLM(llm) ==
    CASE llm = "reply" -> <<"reply">>
      [] llm = "empty" -> <<>>                    \* 186: the content is ""
      [] llm = "not200" -> <<"Error: ", "data">>  \* 189
      [] OTHER -> Apology                         \* 192-195: the request failed

\* 42-58
IvrCall(c) ==
    /\ ivr.last.n < MaxRequests
    /\ ivr' = [ivr EXCEPT !.last = [NoResponse EXCEPT !.n = ivr.last.n + 1,
                                       !.route = "/call", !.callSid = c,
                                       !.say = <<"Welcome">>,
                                       !.redirect = "/process_speech"]]
    /\ UNCHANGED <<bridgeVars, codec, calls, dg, streamer>>

\* 60-79
IvrProcessSpeech(c, SpeechResult) ==
    LET voiceInput == trim(SpeechResult)
        seen == [NoResponse EXCEPT !.n = ivr.last.n + 1, !.route = "/process_speech",
                                   !.callSid = c, !.SpeechResult = SpeechResult]
    IN  /\ ivr.last.n < MaxRequests
        /\ IF voiceInput = <<>>
           THEN ivr' = [ivr EXCEPT !.last = [seen EXCEPT !.say = Repeat,
                                                         !.redirect = "/call"]]
           ELSE ivr' = [ivr EXCEPT
                          !.history[c] = Append(ivr.history[c],
                                            [role |-> "user", content |-> voiceInput]),
                          !.pending[c] = ivr.pending[c] + 1,
                          !.last = seen]
        /\ UNCHANGED <<bridgeVars, codec, calls, dg, streamer>>

\* 79-93: queryLLM settles
IvrLLMSettles(c, llm) ==
    /\ ivr.pending[c] > 0
    /\ ivr' = [ivr EXCEPT
                 !.history[c] = Append(ivr.history[c],
                                   [role |-> "assistant", content |-> queryLLM(llm)]),
                 !.pending[c] = ivr.pending[c] - 1,
                 !.last = [NoResponse EXCEPT !.n = ivr.last.n + 1,
                              !.route = "/process_speech", !.callSid = c, !.llm = llm,
                              !.redirect = "/speak_response"]]
    /\ UNCHANGED <<bridgeVars, codec, calls, dg, streamer>>

\* 96-115
IvrSpeakResponse(c) ==
    /\ ivr.last.n < MaxRequests
    /\ ivr' = [ivr EXCEPT !.last = [NoResponse EXCEPT !.n = ivr.last.n + 1,
                                       !.route = "/speak_response", !.callSid = c,
                                       !.say = lastResponseOf(ivr.history[c]),
                                       !.redirect = "/process_speech"]]
    /\ UNCHANGED <<bridgeVars, codec, calls, dg, streamer>>

\* req.body.SpeechResult: absent or empty, white space, words, words after white space
SpeechResults == { <<>>, <<" ">>, <<"hello">>, <<" ", "hello">> }
LLMOutcomes == {"reply", "empty", "not200", "failed"}

IvrNext ==
    \/ \E c \in IvrCallSids : IvrCall(c)
    \/ \E c \in IvrCallSids, SpeechResult \in SpeechResults : IvrProcessSpeech(c, SpeechResult)
    \/ \E c \in IvrCallSids, llm \in LLMOutcomes : IvrLLMSettles(c, llm)
    \/ \E c \in IvrCallSids : IvrSpeakResponse(c)

IvrSpec == Init /\ [][IvrNext]_vars

(***************************************************************************)
(* What the claims are stated with.                                        *)
(***************************************************************************)
CeilDiv(a, b) == (a + b - 1) \div b
\* <<0, 1, ..., n - 1>>: the first n slices in slice order
FirstN(n) == [k \in 1 .. n |-> k - 1]
Streaming == { t \in Tasks : tasks[t].pc = "stream" }

\* G.711 mu-law: the segment of a biased magnitude, the step of a sample's
\* segment on the 16-bit scale, and the reference encoder
G711Segment(biased) ==
    CHOOSE e \in 0 .. 7 : IF e = 0 THEN biased < 256
                          ELSE Pow2(e + 7) <= biased /\ biased < Pow2(e + 8)
G711Biased(s) == Min(Abs(s), CLIP) + BIAS
QuantStep(s) == Pow2(G711Segment(G711Biased(s)) + 3)
G711Encode(s) ==
    LET b == G711Biased(s)
        e == G711Segment(b)
        m == (b \div Pow2(e + 3)) % 16
    IN  255 - ((IF s < 0 THEN 128 ELSE 0) + 16 * e + m)
SignField(byte) == (255 - byte) \div 128
ExponentField(byte) == ((255 - byte) \div 16) % 8
MantissaField(byte) == (255 - byte) % 16

(***************************************************************************)
(* C1.  End to end (E2ESpec): start, five non-silent 20 ms frames, the     *)
(* inactivity timer: the response collaborator is invoked exactly once     *)
(* with the five decoded frames, and the reply's playback job streams the  *)
(* whole reply, sends the mark and leaves speaking false.                  *)
(***************************************************************************)
FlushStep == nextTask' = nextTask + 1
FramesInOrder(buffer) == \A k \in 1 .. Len(buffer) : buffer[k].id = k /\ buffer[k].len = 320
InvokedOnceWith(task, buffer) ==
    task.pc = "gemini" /\ task.apiCalls = 1 /\ task.apiArg = buffer
JobStreamedAll(job) ==
    /\ job.sent = FirstN(CeilDiv(job.L \div 2, 160))
    /\ job.mark

C2_BargeInSilencesJob ==
    [][ /\ \A t \in Tasks :
              (tasks[t].pc = "stream" /\ tasks[t].barged) =>
                 /\ tasks'[t].pc = "stream" => tasks'[t].sent = tasks[t].sent
                 /\ tasks'[t].marks = tasks[t].marks
        /\ (\E t \in Tasks : ~tasks[t].barged /\ tasks'[t].barged)
              => speakingState' # "true" ]_vars

(***************************************************************************)
(* C3.  At most one playback job of the call is in its send loop (Spec).   *)
(***************************************************************************)
C3_OneJobEmitting == Cardinality(Streaming) <= 1

(***************************************************************************)
(* C4.  speakingState is true exactly when some playback job is in its     *)
(* loop and the flag has not been cleared since that job set it (Spec).    *)
(***************************************************************************)
C4_SpeakingIffActiveJob ==
    (speakingState = "true") <=> (\E t \in Tasks : tasks[t].pc = "stream" /\ ~tasks[t].cancelled)

C4_Witness ==
    /\ speakingState = "true"
    /\ \E t \in Tasks : tasks[t].pc = "stream" /\ ~tasks[t].cancelled /\ Len(tasks[t].sent) = 2
    /\ \E t \in Tasks : tasks[t].pc = "stream" /\ tasks[t].cancelled

(***************************************************************************)
(* C5.  An uncancelled playback job on an open socket (PlaybackSpec), with *)
(* L the length of the synthesized buffer and slices of 160: it emits      *)
(* ceil(L / 160) frames in slice order, pausing after each, then one mark. *)
(***************************************************************************)
OneFramePerStep ==
    \A t \in Tasks :
        Len(tasks'[t].sent) > Len(tasks[t].sent) =>
            /\ tasks'[t].pc = "stream"
            /\ tasks'[t].sent = Append(tasks[t].sent, Len(tasks[t].sent))
Uncancelled(job) == job.t >= 0 /\ job.speaking = "true" /\ job.open

C5_FramesAreCeilLOverC ==
    /\ [][OneFramePerStep]_vars
    /\ [](Uncancelled(lastJob) =>
            /\ lastJob.sent = FirstN(CeilDiv(lastJob.L, 160))
            /\ lastJob.mark /\ tasks[lastJob.t].marks = 1)

\* C5 as amended: the buffer is encoded to floor(L / 2) bytes before it is
\* sliced, so the frames are ceil(floor(L / 2) / 160)
C5_FramesAreCeilHalfLOverC ==
    /\ [][OneFramePerStep]_vars
    /\ [](Uncancelled(lastJob) =>
            /\ lastJob.sent = FirstN(CeilDiv(lastJob.L \div 2, 160))
            /\ lastJob.mark /\ tasks[lastJob.t].marks = 1)

C5_Witness ==
    /\ Uncancelled(lastJob) /\ lastJob.mark
    /\ lastJob.L % 2 = 1 /\ Len(lastJob.sent) = 3

(***************************************************************************)
(* C6.  The utterance buffer (Spec): N non-silent frames of F bytes since  *)
(* the last flush make N * F bytes; the buffer is empty right after the    *)
(* start and right after every flush; in between a step leaves it alone or *)
(* appends the frame it received.                                          *)
(***************************************************************************)
C6_BufferAppendOnly ==
    /\ [](\A F \in {320, 4800} :
            (\A k \in 1 .. Len(incomingAudioBuffers) : incomingAudioBuffers[k].len = F)
               => Bytes(incomingAudioBuffers) = Len(incomingAudioBuffers) * F)
    /\ [][ /\ (phase = "idle" /\ phase' = "live") => Bytes(incomingAudioBuffers') = 0
           /\ FlushStep => Bytes(incomingAudioBuffers') = 0
           /\ (phase = "live" /\ phase' = "live" /\ ~FlushStep) =>
                 IF frameCount' # frameCount /\ lastFrame'.result = "appended"
                 THEN /\ Len(incomingAudioBuffers') = Len(incomingAudioBuffers) + 1
                      /\ SubSeq(incomingAudioBuffers', 1, Len(incomingAudioBuffers))
                            = incomingAudioBuffers
                      /\ Bytes(incomingAudioBuffers')
                            = Bytes(incomingAudioBuffers) + lastFrame'.len
                 ELSE incomingAudioBuffers' = incomingAudioBuffers ]_vars

C6_Witness ==
    /\ Len(incomingAudioBuffers) = 2 /\ Bytes(incomingAudioBuffers) = 2 * 320
    /\ lastFrame.result = "appended"

(***************************************************************************)
(* C7.  Round trip of a sample (CodecSpec): for s in -32635..32635,        *)
(* muLawToLinear(linearToMuLaw(s)) is within the quantization step of s's  *)
(* segment of s, and not of the opposite sign.                             *)
(***************************************************************************)
C7_RoundTripWithinStep ==
    (codec.path = "pcm" /\ codec.stage = 2 /\ codec.x \in -CLIP .. CLIP) =>
        /\ Abs(codec.z - codec.x) <= QuantStep(codec.x)
        /\ codec.x < 0 => codec.z <= 0
        /\ codec.x > 0 => codec.z >= 0

(***************************************************************************)
(* C8.  linearToMuLaw is the G.711 mu-law encoder on every int16 sample    *)
(* (CodecSpec).                                                            *)
(***************************************************************************)
C8_EncoderIsG711 ==
    (codec.path = "pcm" /\ codec.stage >= 1) => codec.y = G711Encode(codec.x)

(***************************************************************************)
(* C9.  Round trip of a byte (CodecSpec): linearToMuLaw(muLawToLinear(x))  *)
(* has the sign and exponent of x and a mantissa at most 1 away.           *)
(***************************************************************************)
C9_ReencodeWithinOneStep ==
    (codec.path = "mu" /\ codec.stage = 2) =>
        /\ SignField(codec.z) = SignField(codec.x)
        /\ ExponentField(codec.z) = ExponentField(codec.x)
        /\ Abs(MantissaField(codec.z) - MantissaField(codec.x)) <= 1

(***************************************************************************)
(* C10.  The silence detector (SilenceSpec): an all-zero frame is silent;  *)
(* a frame whose RMS is five times the adaptive threshold, be it the one   *)
(* in force when the frame arrives or the one the frame leaves behind, is  *)
(* not.                                                                    *)
(***************************************************************************)
C10_ZeroSilentFiveTimesLoud ==
    lastFrame.result \in {"silent", "appended"} =>
        /\ lastFrame.rms = 0 => lastFrame.result = "silent"
        /\ lastFrame.rms = 5 * lastFrame.thrBefore => lastFrame.result = "appended"
        /\ (phase = "live" /\ lastFrame.rms = 5 * audioQualityMetrics.adaptiveThreshold)
              => lastFrame.result = "appended"

C10_Witness ==
    /\ lastFrame.result = "appended"
    /\ lastFrame.rms = 5 * lastFrame.thrBefore
    /\ lastFrame.thrBefore \notin {800 * AvgScale, 200 * AvgScale}
    /\ frameCount = 3

(***************************************************************************)
(* C11.  Stop destroys the session (Spec): once the call is stopped and    *)
(* every invocation in flight has returned, the inactivity timer is not    *)
(* armed and the call has no entry left in conversationHistory,            *)
(* incomingAudioBuffers, timeoutHandlers, speakingState or                 *)
(* audioQualityMetrics.                                                    *)
(***************************************************************************)
Quiescent == \A t \in Tasks : tasks[t].pc \in {"idle", "done"}

C11_StopLeavesNoEntry ==
    (phase = "stopped" /\ Quiescent) =>
        /\ timeoutHandlers = NoTimer
        /\ conversationHistory = <<>>
        /\ incomingAudioBuffers = <<>>
        /\ audioQualityMetrics = NoMetrics
        /\ speakingState = "undefined"

(***************************************************************************)
(* C12.  A mark belongs to the job it ends (Spec): neither the             *)
(* acknowledgement of a mark nor the flag reset at the end of another job  *)
(* clears the flag of a job that is in its loop with its flag still set.   *)
(***************************************************************************)
AckStep == pendingMarks' < pendingMarks
OtherJobEnds(t) ==
    \E u \in Tasks \ {t} : tasks[u].pc = "stream" /\ tasks'[u].pc = "done"

C12_AckNeverCancelsLaterJob ==
    [][ \A t \in Tasks :
          ( /\ tasks[t].pc = "stream" /\ ~tasks[t].cancelled
            /\ tasks'[t].pc = "stream"
            /\ (AckStep \/ OtherJobEnds(t)) )
          => (~tasks'[t].cancelled /\ speakingState' = "true") ]_vars

(***************************************************************************)
(* C13.  An event of an untracked stream is dropped (Spec): a media, mark  *)
(* or stop event whose stream has no entry in streamSidToCallSidMap        *)
(* changes nothing of the call in progress (buffer, timer, flag, history,  *)
(* metrics, phase), sends nothing, starts nothing, and leaves the handler  *)
(* in place.                                                               *)
(***************************************************************************)
InboundStep == lastFrame' # lastFrame
Untracked(streamSid) == streamSid # OwnStream \/ phase # "live"

C13_UntrackedEventDropped ==
    [][ (InboundStep /\ Untracked(lastFrame'.streamSid)) =>
          /\ lastFrame'.result \in {"dropped", "dropped-mark", "dropped-stop"}
          /\ UNCHANGED <<phase, conversationHistory, incomingAudioBuffers,
                         timeoutHandlers, speakingState, audioQualityMetrics>>
          /\ UNCHANGED <<tasks, pendingMarks, nextTask, frameCount, wsOpen>> ]_vars

\* the call is live with audio buffered, its timer armed and a job streaming, and
\* the last event, of another stream, was dropped
C13_Witness ==
    /\ lastFrame.result \in {"dropped-mark", "dropped-stop"}
    /\ lastFrame.streamSid # OwnStream
    /\ phase = "live" /\ speakingState = "true" /\ timeoutHandlers.armed
    /\ Len(incomingAudioBuffers) > 0

(***************************************************************************)
(* C14.  Malformed audio is dropped (Spec): a media event of the call      *)
(* whose payload is no string, is empty or is not base64 leaves the        *)
(* utterance buffer, the inactivity timer, the speaking flag, the history  *)
(* and the detector's metrics as they were.                                *)
(***************************************************************************)
Malformed(kind) == kind \in {"empty", "garbled"}

C14_MalformedFrameDropped ==
    [][ (InboundStep /\ Malformed(lastFrame'.kind)) =>
          UNCHANGED <<incomingAudioBuffers, timeoutHandlers, speakingState,
                      conversationHistory, audioQualityMetrics>> ]_vars

(***************************************************************************)
(* C15.  The connection closes during playback (Spec): while the socket is *)
(* not OPEN no job sends a frame or a mark; a job in its loop ends at its  *)
(* next step, leaving speaking false, and never streams again; and         *)
(* speaking is true on a closed socket only while such a job has its step  *)
(* still to take.                                                          *)
(***************************************************************************)
C15_ClosedSocketEndsPlayback ==
    /\ [][ ~wsOpen =>
             /\ pendingMarks' = pendingMarks
             /\ \A t \in Tasks :
                  /\ tasks'[t].marks = tasks[t].marks
                  /\ tasks'[t].pc = "stream" =>
                        (tasks[t].pc = "stream" /\ tasks'[t].sent = tasks[t].sent)
                  /\ (tasks[t].pc = "stream" /\ tasks'[t].pc # "stream")
                        => (tasks'[t].pc = "done" /\ speakingState' = "false")
                  /\ tasks[t].pc = "done" => tasks'[t].pc = "done" ]_vars
    /\ []((~wsOpen /\ speakingState = "true") => \E t \in Tasks : tasks[t].pc = "stream")

\* a job that had sent a frame found the socket closed, with the flag still
\* true, and ended without a mark
C15_Witness ==
    /\ ~wsOpen /\ speakingState = "false"
    /\ lastJob.t >= 0 /\ ~lastJob.open /\ lastJob.speaking = "true"
    /\ Len(lastJob.sent) >= 1 /\ ~lastJob.mark
    /\ tasks[lastJob.t].pc = "done" /\ tasks[lastJob.t].marks = 0

(***************************************************************************)
(* C16.  Synthesis fails (Spec): the step in which synthesizeWithDeepgram  *)
(* throws, for the greeting or for a reply, starts no playback: no frame   *)
(* and no mark is sent, the speaking flag is left as it was, the task ends *)
(* having sent nothing, and the call, its buffer and its timer stay as     *)
(* they were, ready for the next frame.                                    *)
(***************************************************************************)
SynthFailStep(t) ==
    tasks[t].pc = "synth" /\ tasks'[t].pc = "done" /\ lastJob' = lastJob

C17_OneAttemptPerStage ==
    /\ [](\A t \in Tasks : tasks[t].apiCalls <= 1 /\ tasks[t].synthCalls <= 1)
    /\ [][ \A t \in Tasks :
             /\ tasks[t].pc = "done" =>
                   /\ tasks'[t].apiCalls = tasks[t].apiCalls
                   /\ tasks'[t].synthCalls = tasks[t].synthCalls
             /\ tasks[t].pc \in {"synth", "stream"} => tasks'[t].apiCalls = tasks[t].apiCalls
             /\ tasks[t].pc = "stream" => tasks'[t].synthCalls = tasks[t].synthCalls ]_vars

\* the response service failed for the first utterance (the apology is its reply) and
\* the synthesis of the apology failed too; the second utterance has had its one call
C17_Witness ==
    /\ \E k \in 1 .. Len(conversationHistory) : conversationHistory[k].content = "apology"
    /\ lastJob.t # 1
    /\ tasks[1].pc = "done" /\ tasks[1].apiCalls = 1 /\ tasks[1].synthCalls = 1
    /\ tasks[1].marks = 0
    /\ tasks[2].apiCalls = 1


(***************************************************************************)
(* C18.  Events of one call never read or write another call's per-call    *)
(* state.  With two calls at once, every step is the handling of an event  *)
(* of one call or a continuation started for one call (calls.actor); the   *)
(* buffer, timer, speaking flag, detector metrics, history, jobs and       *)
(* outbound frames of the other call, and the other stream's entry of      *)
(* streamSidToCallSidMap, are after the step what they were before it, so  *)
(* they are the same whatever events the first call receives.              *)
(***************************************************************************)
C18_CallsAreIsolated ==
    [][ \A c \in CallSids :
          (calls'.session[c] # calls.session[c]
             \/ calls'.map[streamOfCall(c)] # calls.map[streamOfCall(c)])
          => calls'.actor = c ]_vars

\* both calls are live, one holds buffered speech with its timer armed while an
\* event of the other has just been handled on entries of its own
C18_Witness ==
    /\ calls.session["CA-call"].phase = "live"
    /\ calls.session["CA-call"].armed
    /\ Len(calls.session["CA-call"].buffer) > 0
    /\ calls.session["CA-other"].phase = "live"
    /\ calls.session["CA-other"].jobs["reply"].pc = "stream"
    /\ calls.session["CA-other"].out > 0
    /\ calls.actor = "CA-other"


(***************************************************************************)
(* C19.  In the Deepgram + Mistral variant, the reply generated for a      *)
(* call's transcript is streamed to that call's own stream: with two calls *)
(* active at once, every invocation of streamAIResponseToTwilio for a      *)
(* reply has the streamSid of the call whose connection and callSid it was *)
(* given, never that of the other call.                                    *)
(***************************************************************************)
C19_ReplyOnOwnStream ==
    \A j \in DgJobs :
        (dg.jobs[j].kind = "reply" /\ dg.jobs[j].pc \in {"synth", "stream"})
        => dg.jobs[j].streamSid = streamOfCall(dg.jobs[j].ws)

(***************************************************************************)
(* C20.  In the Deepgram + Mistral variant, a transcript with words that   *)
(* arrives while AI audio (the greeting or a reply) is being streamed for  *)
(* the call halts that playback: from its next flag check on, the loop     *)
(* sends no frame, and the invocation ends without a 'tts_response_end'    *)
(* mark.                                                                   *)
(***************************************************************************)
C20_TranscriptHaltsPlayback ==
    [][ \A j \in DgJobs :
          (dg.jobs[j].pc = "stream" /\ dg.jobs[j].bargedIn)
          => /\ dg'.jobs[j].pc \in {"stream", "done"}
             /\ dg'.jobs[j].pc = "stream" => dg'.jobs[j].i = dg.jobs[j].i
             /\ dg'.jobs[j].pc = "done" =>
                   dg'.marks[dg.jobs[j].ws] <= dg.marks[dg.jobs[j].ws] ]_vars


(***************************************************************************)
(* C21.  Non-streaming IVR: /process_speech with a non-empty SpeechResult  *)
(* appends exactly one user turn and then exactly one assistant turn (the  *)
(* LLM reply, or the fixed apology when the LLM call fails) to the call's  *)
(* history and redirects to /speak_response; /speak_response speaks the    *)
(* content of the last history entry of that call (the apology when the    *)
(* call has no history).                                                   *)
(***************************************************************************)
IvrStep == ivr'.last.n # ivr.last.n
SpeechArrives == IvrStep /\ ivr'.last.route = "/process_speech" /\ ivr'.last.llm = "none"
ReplyArrives == IvrStep /\ ivr'.last.route = "/process_speech" /\ ivr'.last.llm # "none"
SpeakRequested == IvrStep /\ ivr'.last.route = "/speak_response"
HasWords(text) == \E k \in 1 .. Len(text) : text[k] # " "
OneTurnMore(c, role) ==
    /\ Len(ivr'.history[c]) = Len(ivr.history[c]) + 1
    /\ SubSeq(ivr'.history[c], 1, Len(ivr.history[c])) = ivr.history[c]
    /\ ivr'.history[c][Len(ivr'.history[c])].role = role
    /\ \A d \in IvrCallSids \ {c} : ivr'.history[d] = ivr.history[d]
AssistantTurn(c) ==
    /\ OneTurnMore(c, "assistant")
    /\ ivr'.last.llm = "failed" => ivr'.history[c][Len(ivr'.history[c])].content = Apology
    /\ ivr'.last.llm = "reply" =>
          ivr'.history[c][Len(ivr'.history[c])].content = <<"reply">>
    /\ ivr'.last.redirect = "/speak_response"

C21_TurnsThenSpokenLast ==
    [][ LET c == ivr'.last.callSid
        IN  /\ (SpeechArrives /\ ivr'.last.SpeechResult # <<>>)
                  => (OneTurnMore(c, "user") /\ ivr'.pending[c] = ivr.pending[c] + 1)
            /\ ReplyArrives => AssistantTurn(c)
            /\ SpeakRequested =>
                  ivr'.last.say = IF ivr.history[c] = <<>> THEN Apology
                                  ELSE ivr.history[c][Len(ivr.history[c])].content ]_vars

\* C21 as the handlers have it: the SpeechResult must hold more than white space,
\* and the apology is also spoken when the last entry's content is empty
C21_TurnsThenSpokenLastWithWords ==
    [][ LET c == ivr'.last.callSid
        IN  /\ (SpeechArrives /\ HasWords(ivr'.last.SpeechResult))
                  => (OneTurnMore(c, "user") /\ ivr'.pending[c] = ivr.pending[c] + 1)
            /\ (SpeechArrives /\ ~HasWords(ivr'.last.SpeechResult))
                  => (ivr'.history = ivr.history /\ ivr'.pending = ivr.pending)
            /\ ReplyArrives => AssistantTurn(c)
            /\ SpeakRequested =>
                  ivr'.last.say =
                      IF ivr.history[c] = <<>>
                         \/ ivr.history[c][Len(ivr.history[c])].content = <<>>
                      THEN Apology
                      ELSE ivr.history[c][Len(ivr.history[c])].content ]_vars

\* a call said "hello", the reply was appended after it and has just been spoken
C21_Witness ==
    /\ ivr.last.route = "/speak_response" /\ ivr.last.callSid = "CA-call"
    /\ ivr.history["CA-call"] = << [role |-> "user", content |-> <<"hello">>],
                                   [role |-> "assistant", content |-> <<"reply">>] >>
    /\ ivr.last.say = <<"reply">>


(***************************************************************************)
(* C22.  A media frame classified silent by improvedSilenceDetection       *)
(* leaves the call's utterance buffer unchanged and neither cancels nor    *)
(* re-arms the inactivity timer, in every state of the call.               *)
(***************************************************************************)
FrameDecoded == frameCount' = frameCount + 1
C22_SilentFrameTouchesNothing ==
    [][ (FrameDecoded /\ lastFrame'.result = "silent")
        => UNCHANGED <<incomingAudioBuffers, timeoutHandlers>> ]_vars

\* a silent frame has arrived while speech was buffered and the timer pending
C22_Witness ==
    /\ lastFrame.result = "silent"
    /\ Len(incomingAudioBuffers) > 0
    /\ timeoutHandlers.armed


(***************************************************************************)
(* C23.  At any time a call has at most one pending inactivity timer:      *)
(* every non-silent frame cancels the previous timer before arming a new   *)
(* one, so a run of non-silent frames followed by silence produces exactly *)
(* one flush, not one per frame: after a flush no timer is left pending    *)
(* until the next non-silent frame.                                        *)
(***************************************************************************)
C23_OnePendingTimer ==
    /\ [](timeoutHandlers.pending <= 1)
    /\ [](timeoutHandlers.armed <=> timeoutHandlers.pending = 1)
    /\ [][ FlushStep => timeoutHandlers'.pending = 0 ]_vars
    /\ [][ (FrameDecoded /\ lastFrame'.result = "appended")
           => timeoutHandlers'.pending = 1 ]_vars

\* two non-silent frames in a row are buffered and one timer is pending for them
C23_Witness ==
    /\ Len(incomingAudioBuffers) = 2
    /\ lastFrame.result = "appended"
    /\ timeoutHandlers.pending = 1
    /\ nextTask = 1


(***************************************************************************)
(* C24.  Every non-silent frame's decoded bytes end up in exactly one      *)
(* flushed utterance, in arrival order.  Frames leave the buffer only by   *)
(* the flush, which hands the whole buffer to processAccumulatedAudio and  *)
(* installs an empty one in the same step; a frame that arrives while a    *)
(* flushed utterance is being processed is in the buffer for the next      *)
(* utterance and in no utterance already flushed.                          *)
(***************************************************************************)
Processing == { t \in Tasks : tasks[t].pc = "gemini" }
Ascending(buffer) == \A k \in 1 .. Len(buffer) - 1 : buffer[k].id < buffer[k + 1].id
Before(first, second) ==
    \A k \in 1 .. Len(first), l \in 1 .. Len(second) : first[k].id < second[l].id
\* the utterances in flight and the buffer hold each frame once, in arrival order
NoFrameTwice ==
    /\ Ascending(incomingAudioBuffers)
    /\ \A t \in Processing :
          /\ Ascending(tasks[t].apiArg)
          /\ Before(tasks[t].apiArg, incomingAudioBuffers)
          /\ \A u \in Processing : t < u => Before(tasks[t].apiArg, tasks[u].apiArg)
\* the flush: the whole buffer is the utterance, and an empty buffer takes its place
WholeBufferFlushed ==
    /\ incomingAudioBuffers' = <<>>
    /\ tasks'[nextTask].pc = "gemini" => tasks'[nextTask].apiArg = incomingAudioBuffers
    /\ tasks'[nextTask].pc \in {"gemini", "done"}
FrameAppended ==
    /\ lastFrame'.result = "appended"
    /\ Len(incomingAudioBuffers') = Len(incomingAudioBuffers) + 1
    /\ SubSeq(incomingAudioBuffers', 1, Len(incomingAudioBuffers)) = incomingAudioBuffers
    /\ incomingAudioBuffers'[Len(incomingAudioBuffers')].id = frameCount'

C24_EveryFrameFlushedOnce ==
    /\ []NoFrameTwice
    /\ [][ /\ FlushStep => WholeBufferFlushed
           /\ (incomingAudioBuffers' # incomingAudioBuffers /\ ~FlushStep)
                 => FrameAppended ]_vars

\* C24 with the frames that the end of the call discards: stop deletes the buffer
\* (806) and the frames in it are in no flushed utterance
C24_EveryFrameFlushedOnceUnlessStopped ==
    /\ []NoFrameTwice
    /\ [][ /\ FlushStep => WholeBufferFlushed
           /\ (incomingAudioBuffers' # incomingAudioBuffers /\ ~FlushStep)
                 => \/ FrameAppended
                    \/ phase = "live" /\ phase' = "stopped"
                          /\ incomingAudioBuffers' = <<>> ]_vars

\* the first utterance is being processed and holds frame 1 while frame 2, which
\* arrived meanwhile, waits in the buffer
C24_Witness ==
    /\ tasks[1].pc = "gemini" /\ Len(tasks[1].apiArg) = 1 /\ tasks[1].apiArg[1].id = 1
    /\ Len(incomingAudioBuffers) = 1 /\ incomingAudioBuffers[1].id = 2


(***************************************************************************)
(* C25.  The inactivity timeout armed on a non-silent frame is always      *)
(* within 500 ms to 2000 ms and never decreases as the accumulated buffer  *)
(* grows.  (Durations are held in 1/80 ms.)                                *)
(***************************************************************************)
C25_TimeoutBoundedAndMonotone ==
    [][ (FrameDecoded /\ lastFrame'.result = "appended")
        => /\ timeoutHandlers'.armed
           /\ timeoutHandlers'.ms80 >= 500 * 80
           /\ timeoutHandlers'.ms80 <= 2000 * 80
           /\ incomingAudioBuffers # <<>> =>
                 timeoutHandlers'.ms80 >= timeoutHandlers.ms80 ]_vars

\* the timeout has grown with the buffer, past its least value and short of its
\* greatest
C25_Witness ==
    /\ lastFrame.result = "appended" /\ timeoutHandlers.armed
    /\ Len(incomingAudioBuffers) > 1
    /\ timeoutHandlers.ms80 > 800 * 80 /\ timeoutHandlers.ms80 < 2000 * 80


(***************************************************************************)
(* C26.  When the response for a flushed utterance is empty (the           *)
(* collaborator returned empty text, or quality validation rejected the    *)
(* audio), no playback job is started, the conversation history is         *)
(* unchanged, and a playback job that is active at that moment is not      *)
(* cancelled: the speaking flag and every job in its loop are as before.   *)
(***************************************************************************)
\* the Gemini call of task t settled with empty text
EmptyResponse(t) ==
    tasks[t].pc = "gemini" /\ tasks'[t].pc = "done" /\ tasks'[t].text = "none"
\* the flush ended in processAccumulatedAudio or validateAudioQuality
RejectedUtterance == FlushStep /\ tasks'[nextTask].pc = "done"
NothingStartedOrCancelled(t) ==
    /\ tasks'[t].synthCalls = tasks[t].synthCalls
    /\ conversationHistory' = conversationHistory
    /\ speakingState' = speakingState
    /\ pendingMarks' = pendingMarks
    /\ \A u \in Tasks \ {t} : tasks'[u] = tasks[u]

C26_EmptyResponseChangesNothing ==
    [][ /\ \A t \in Tasks : EmptyResponse(t) => NothingStartedOrCancelled(t)
        /\ RejectedUtterance => NothingStartedOrCancelled(nextTask) ]_vars

\* an utterance has ended with an empty response while the greeting is still being
\* played
C26_Witness ==
    /\ tasks[1].pc = "done" /\ tasks[1].apiCalls = 1 /\ tasks[1].synthCalls = 0
    /\ tasks[0].pc = "stream" /\ ~tasks[0].cancelled /\ ~tasks[0].barged
    /\ speakingState = "true" /\ Len(conversationHistory) = 1


(***************************************************************************)
(* C27.  An utterance that fails quality validation (shorter than the      *)
(* minimum duration of 100 ms, 1600 bytes, or fewer than 10% non-zero      *)
(* samples in its first 200 ms, 3200 bytes) yields an empty result and the *)
(* response collaborator is not invoked for it.                            *)
(***************************************************************************)
FirstWindow(buffer) == Min(Bytes(buffer), 3200)
FailsQuality(buffer) ==
    \/ Bytes(buffer) < 1600
    \/ 10 * nonZeroSamples(buffer, 1, FirstWindow(buffer)) < FirstWindow(buffer) \div 2

C27_PoorAudioNeverSent ==
    [][ (FlushStep /\ FailsQuality(incomingAudioBuffers))
        => /\ tasks'[nextTask].pc = "done"
           /\ tasks'[nextTask].apiCalls = 0
           /\ NothingStartedOrCancelled(nextTask) ]_vars

\* the one frame of the call, 300 ms long with one sample in 16 non-zero, was flushed
\* and the collaborator was not called
C27_Witness ==
    /\ frameCount = 1 /\ lastFrame.result = "appended" /\ lastFrame.len = 4800
    /\ nextTask = 2 /\ tasks[1].pc = "done" /\ tasks[1].apiCalls = 0


(***************************************************************************)
(* C28.  Caller audio cancels playback only when confirmed: the arrival of *)
(* a media frame, silent or not, never clears the speaking flag and never  *)
(* cancels a job; a job in its loop is interrupted by caller audio only in *)
(* a step in which the response to a flushed utterance of at least 4800    *)
(* bytes (0.3 s) arrives, and that response is not empty.                  *)
(***************************************************************************)
MediaStep ==
    FrameDecoded \/ (lastFrame' # lastFrame /\ lastFrame'.result \in {"invalid", "dropped"})
Interrupted(u) == tasks[u].pc = "stream" /\ ~tasks[u].barged /\ tasks'[u].barged
ConfirmedSpeech(t) ==
    /\ tasks[t].pc = "gemini" /\ Bytes(tasks[t].apiArg) >= 4800
    /\ tasks'[t].pc \in {"synth", "done"} /\ tasks'[t].text # "none"

C28_OnlyConfirmedSpeechInterrupts ==
    [][ /\ MediaStep => /\ speakingState' = speakingState
                        /\ \A u \in Tasks : /\ tasks'[u].cancelled = tasks[u].cancelled
                                            /\ tasks'[u].barged = tasks[u].barged
        /\ \A u \in Tasks : Interrupted(u) => \E t \in Tasks : ConfirmedSpeech(t) ]_vars

\* fifteen frames were flushed and their response has interrupted the greeting, which
\* is still in its loop
C28_Witness ==
    /\ frameCount >= 15 /\ tasks[1].pc = "synth"
    /\ tasks[0].pc = "stream" /\ tasks[0].barged /\ tasks[0].cancelled
    /\ speakingState = "false"


(***************************************************************************)
(* C29.  The first frame of a call seeds the silence detector's running    *)
(* average from that frame's own energy rather than from zero: after a     *)
(* start event followed by one media frame of energy e, the call's         *)
(* avgAmplitude equals e.                                                  *)
(***************************************************************************)
C29_FirstFrameSeedsAverage ==
    [][ (phase = "live" /\ frameCount = 0 /\ FrameDecoded)
        => audioQualityMetrics'.avgAmplitude = lastFrame'.rms ]_vars

(***************************************************************************)
(* C30.  In every state of a started call the adaptive silence threshold   *)
(* lies between the floor and the ceiling (200 and 1500), and after each   *)
(* processed frame it equals clamp(avgAmplitude * k) for a k in [0.2, 0.3] *)
(* (that is, it lies between the clamped fifth and the clamped three       *)
(* tenths of the new average), whatever energies the frames had.           *)
(***************************************************************************)
Clamp(x) == Max(200 * AvgScale, Min(1500 * AvgScale, x))
C30_ThresholdClamped ==
    /\ [](phase = "live" =>
             /\ audioQualityMetrics.adaptiveThreshold >= 200 * AvgScale
             /\ audioQualityMetrics.adaptiveThreshold <= 1500 * AvgScale)
    /\ [][ (phase = "live" /\ FrameDecoded /\ lastFrame'.len >= 2) =>
             /\ audioQualityMetrics'.adaptiveThreshold
                   >= Clamp((audioQualityMetrics'.avgAmplitude * 2) \div 10)
             /\ audioQualityMetrics'.adaptiveThreshold
                   <= Clamp(CeilDiv(audioQualityMetrics'.avgAmplitude * 3, 10)) ]_vars

\* after three loud frames the average is above 6000 and the threshold at the ceiling
C30_Witness ==
    /\ phase = "live" /\ frameCount = MaxProbe
    /\ audioQualityMetrics.avgAmplitude > 6000 * AvgScale
    /\ audioQualityMetrics.adaptiveThreshold = 1500 * AvgScale

(***************************************************************************)
(* The codec on whole buffers, index.js 94-103 and 152-162.  A buffer is   *)
(* the sequence of its bytes.  Neither function has a throw: the reads of  *)
(* pcmToMuLaw are at offsets 2i < 2 * floor(length / 2), inside the        *)
(* buffer, and Buffer.alloc of a size that is no integer allocates the     *)
(* size rounded down.                                                      *)
(***************************************************************************)
\* Buffer.readInt16LE, 157
readInt16LE(buffer, offset) ==
    LET u == buffer[offset + 1] + 256 * buffer[offset + 2]
    IN  IF u >= 32768 THEN u - 65536 ELSE u

\* Buffer.writeInt16LE, 99: the two bytes of the sample
writeInt16LE(sample) ==
    LET u == (sample + 65536) % 65536
    IN  <<u % 256, u \div 256>>

\* muLawToLinear16 on the bytes of the buffer, 94-103
RECURSIVE muLawToLinear16Buffer(_)
muLawToLinear16Buffer(muLawBuffer) ==
    IF muLawBuffer = <<>> THEN <<>>
    ELSE writeInt16LE(muLawToLinear(Head(muLawBuffer)))
         \o muLawToLinear16Buffer(Tail(muLawBuffer))

\* pcmToMuLaw on the bytes of the buffer, 152-162
pcmToMuLaw(pcmBuffer) ==
    [i \in 1 .. Len(pcmBuffer) \div 2 |-> linearToMuLaw(readInt16LE(pcmBuffer, (i - 1) * 2))]

\* the outcome of a call: it returned a buffer (neither function throws)
Returned(buffer) == [threw |-> "nothing", buffer |-> buffer]

RECURSIVE BuffersOf(_, _)
BuffersOf(bytes, n) ==
    IF n = 0 THEN {<<>>}
    ELSE LET shorter == BuffersOf(bytes, n - 1)
         IN  shorter \cup { Append(b, v) : b \in { s \in shorter : Len(s) = n - 1 }, v \in bytes }

\* mu-law bytes: the loudest and the quietest of each sign
MuLawBytes == {0, 127, 128, 255}
\* bytes of PCM: they make the samples 0, 1, -1, 256, -32768 and more
PcmBytes == {0, 1, 128, 255}

BufferInit ==
    /\ BridgeInit /\ calls = CallsIdle /\ dg = DgIdle /\ ivr = IvrIdle /\ streamer = StreamerIdle
    /\ codec \in { [path |-> "muLawBuffer", stage |-> 0, x |-> b, y |-> Returned(<<>>), z |-> 0] :
                     b \in BuffersOf(MuLawBytes, MaxBufLen) }
            \cup { [path |-> "pcmBuffer", stage |-> 0, x |-> b, y |-> Returned(<<>>), z |-> 0] :
                     b \in BuffersOf(PcmBytes, MaxBufLen) }

DecodeBuffer ==
    /\ codec.path = "muLawBuffer" /\ codec.stage = 0
    /\ codec' = [codec EXCEPT !.stage = 1, !.y = Returned(muLawToLinear16Buffer(codec.x))]
    /\ UNCHANGED <<bridgeVars, calls, dg, ivr, streamer>>

EncodeBuffer ==
    /\ codec.path = "pcmBuffer" /\ codec.stage = 0
    /\ codec' = [codec EXCEPT !.stage = 1, !.y = Returned(pcmToMuLaw(codec.x))]
    /\ UNCHANGED <<bridgeVars, calls, dg, ivr, streamer>>

BufferNext == DecodeBuffer \/ EncodeBuffer

BufferSpec == BufferInit /\ [][BufferNext]_vars

(***************************************************************************)
(* C31.  The codec on buffers (BufferSpec): muLawToLinear16 returns a      *)
(* buffer of exactly twice the input's length; pcmToMuLaw returns a buffer *)
(* of exactly half the input's length holding the encodings of the samples *)
(* in order; and pcmToMuLaw of a buffer of odd length, which does not hold *)
(* whole samples, fails with MalformedAudio and produces no output.        *)
(***************************************************************************)
OddLength(buffer) == Len(buffer) % 2 = 1

C31_BufferCodecLengths ==
    codec.stage = 1 =>
       /\ codec.path = "muLawBuffer" =>
             /\ codec.y.threw = "nothing"
             /\ Len(codec.y.buffer) = 2 * Len(codec.x)
       /\ (codec.path = "pcmBuffer" /\ ~OddLength(codec.x)) =>
             /\ codec.y.threw = "nothing"
             /\ 2 * Len(codec.y.buffer) = Len(codec.x)
             /\ \A i \in 1 .. Len(codec.y.buffer) :
                   codec.y.buffer[i] = linearToMuLaw(readInt16LE(codec.x, (i - 1) * 2))
       /\ (codec.path = "pcmBuffer" /\ OddLength(codec.x)) =>
             /\ codec.y.threw = "MalformedAudio"
             /\ codec.y.buffer = <<>>

(***************************************************************************)
(* C32.  The greeting and the caller's first audio (Spec): a start event   *)
(* creates the session (an empty utterance buffer, speaking false, the     *)
(* stream mapped to the call) and starts the greeting's playback job, at   *)
(* its synthesis; and a media frame of the call that arrives while the     *)
(* greeting is being synthesized or streamed is decoded and classified;     *)
(* unless silent it is appended to the buffer and the timer is armed.      *)
(***************************************************************************)
StartStep == phase = "idle" /\ phase' = "live"
GreetingInProgress == tasks[0].pc \in {"synth", "stream"}
FrameProcessed(payload) ==
    LET frame == muLawToLinear16(payload, frameCount + 1)
    IN  /\ FrameDecoded
        /\ lastFrame'.result \in {"silent", "appended"}
        /\ lastFrame'.result = "silent" <=>
              frame.rms < audioQualityMetrics'.adaptiveThreshold
        /\ lastFrame'.result = "appended" =>
              /\ incomingAudioBuffers' = Append(incomingAudioBuffers, frame)
              /\ timeoutHandlers'.armed /\ timeoutHandlers'.pending = 1

C32_GreetingThenFramesProcessed ==
    [][ /\ StartStep =>
             /\ incomingAudioBuffers' = <<>>
             /\ speakingState' = "false"
             /\ streamSidToCallSidMap(OwnStream, phase') = "CA-call"
             /\ tasks'[0].pc = "synth" /\ tasks'[0].synthCalls = 1
        /\ \A payload \in AudioPayloads :
             (GreetingInProgress /\ phase = "live" /\ Media(payload, OwnStream))
                => FrameProcessed(payload) ]_vars

\* the greeting is in its loop with a slice sent, and a frame of the call is in the
\* buffer with its timer pending
C32_Witness ==
    /\ phase = "live" /\ tasks[0].pc = "stream" /\ tasks[0].sent # <<>>
    /\ lastFrame.result = "appended" /\ lastFrame.streamSid = OwnStream
    /\ Len(incomingAudioBuffers) >= 1 /\ timeoutHandlers.pending = 1

(***************************************************************************)
(* C33.  Nothing was heard (IvrSpec): a /process_speech request whose      *)
(* SpeechResult is absent, empty or only white space is answered with the  *)
(* repeat prompt and a redirect to /call; no call's conversation history   *)
(* changes and queryLLM is not called.                                     *)
(***************************************************************************)
C33_NothingHeardAsksAgain ==
    [][ (SpeechArrives /\ ~HasWords(ivr'.last.SpeechResult)) =>
          /\ ivr'.last.say = Repeat
          /\ ivr'.last.redirect = "/call"
          /\ ivr'.history = ivr.history
          /\ ivr'.pending = ivr.pending ]_vars

\* a call that has a turn in its history was sent white space and got the repeat prompt
C33_Witness ==
    /\ ivr.last.route = "/process_speech" /\ ivr.last.SpeechResult = <<" ">>
    /\ ivr.last.say = Repeat /\ ivr.last.redirect = "/call"
    /\ ivr.history[ivr.last.callSid] # <<>>
    /\ ivr.pending[ivr.last.callSid] = 0

(***************************************************************************)
(* C34.  The shape of the conversation history (Spec): throughout a call   *)
(* the history is the assistant's greeting followed by zero or more pairs  *)
(* of a user turn and, next to it, an assistant turn, and it only grows at *)
(* its end, also when several flushed utterances are processed at once.    *)
(***************************************************************************)
GreetingThenPairs(history) ==
    /\ Len(history) % 2 = 1
    /\ history[1] = [role |-> "assistant", content |-> "greeting"]
    /\ \A k \in 1 .. (Len(history) - 1) \div 2 :
          /\ history[2 * k].role = "user"
          /\ history[2 * k + 1].role = "assistant"
IsPrefix(short, long) ==
    Len(short) <= Len(long) /\ SubSeq(long, 1, Len(short)) = short

C34_HistoryGreetingThenPairs ==
    /\ [](phase = "live" => GreetingThenPairs(conversationHistory))
    /\ [][ (phase = "live" /\ phase' = "live")
              => IsPrefix(conversationHistory, conversationHistory') ]_vars

\* two utterances are being processed at once: the second has its response and its
\* pair of turns in the history while the first still awaits its own
C34_Witness ==
    /\ phase = "live" /\ Len(conversationHistory) = 3
    /\ tasks[1].pc = "gemini" /\ tasks[2].pc = "synth"

(***************************************************************************)
(* C35.  Nothing is sent after stop (Spec): once the stop event of the     *)
(* call has been handled, no job sends a media frame or a mark for it any  *)
(* more, also when an utterance was awaiting its response or its synthesis *)
(* when the stop arrived and the socket is still open.                     *)
(***************************************************************************)
FrameSent(t) == tasks'[t].pc = "stream" /\ Len(tasks'[t].sent) > Len(tasks[t].sent)
MarkSent(t) == tasks'[t].marks > tasks[t].marks

C35_NothingSentAfterStop ==
    [][ phase = "stopped" =>
          /\ pendingMarks' <= pendingMarks
          /\ \A t \in Tasks : ~FrameSent(t) /\ ~MarkSent(t) ]_vars

(***************************************************************************)
(* C36.  A short utterance is discarded (Spec): when a flush hands over    *)
(* fewer than 4800 bytes, the response collaborator is not called, no      *)
(* synthesis and no playback starts for it, and the buffer is empty after  *)
(* the flush, so that its bytes are not part of the next utterance.        *)
(***************************************************************************)
ShortFlush == FlushStep /\ Bytes(incomingAudioBuffers) < 4800

C36_ShortUtteranceDiscarded ==
    [][ ShortFlush =>
          /\ incomingAudioBuffers' = <<>>
          /\ tasks'[nextTask].pc = "done"
          /\ tasks'[nextTask].apiCalls = 0 /\ tasks'[nextTask].synthCalls = 0
          /\ \A u \in Tasks \ {nextTask} : tasks'[u] = tasks[u]
          /\ UNCHANGED <<speakingState, conversationHistory, pendingMarks>>
          /\ \A t \in Tasks : \A k \in 1 .. Len(tasks'[t].apiArg) :
                \A j \in 1 .. Len(incomingAudioBuffers) :
                   tasks'[t].apiArg[k].id # incomingAudioBuffers[j].id ]_vars

\* a flush of 320 bytes was discarded, a later frame of 4800 bytes was flushed on its
\* own, and the collaborator was called with that frame alone
C36_Witness ==
    /\ tasks[1].pc = "done" /\ tasks[1].apiCalls = 0
    /\ tasks[2].pc = "gemini" /\ tasks[2].apiCalls = 1
    /\ Len(tasks[2].apiArg) = 1 /\ tasks[2].apiArg[1].id = 2
    /\ Bytes(tasks[2].apiArg) = 4800

(***************************************************************************)
(* C37.  The response collaborator fails (Spec): geminiGenerateContent     *)
(* then returns the fixed apology, and processAccumulatedAudio of a live   *)
(* call handles it as it handles any response that is not empty: the       *)
(* speaking flag is cleared, which cancels every job in its loop; the user *)
(* turn and the apology as the assistant's turn are appended to the        *)
(* history; the apology goes to synthesis; and when the synthesis returns  *)
(* on an open socket the apology's job starts to play.                     *)
(***************************************************************************)
ApologyTurns ==
    <<[role |-> "user", content |-> "User speech processed"],
      [role |-> "assistant", content |-> "apology"]>>
SynthReturnStep(t) ==
    tasks[t].pc = "synth" /\ tasks'[t].pc # "synth" /\ ~SynthFailStep(t)
PlaybackStarted(t) ==
    \/ tasks'[t].pc = "stream" /\ tasks'[t].sent = <<0>>
    \/ /\ tasks'[t].pc = "done" /\ tasks'[t].marks = 1
       /\ lastJob'.t = t /\ audioChunks(lastJob'.L) = <<>>

C37_ApologyHandledAsResponse ==
    [][ \A t \in Tasks :
          /\ (phase = "live" /\ GeminiReturns(t, "apology")) =>
                /\ speakingState' = "false"
                /\ \A u \in Tasks : tasks[u].pc = "stream" =>
                      (tasks'[u].cancelled /\ tasks'[u].barged)
                /\ conversationHistory' = conversationHistory \o ApologyTurns
                /\ tasks'[t].pc = "synth" /\ tasks'[t].text = "apology"
                /\ tasks'[t].synthCalls = tasks[t].synthCalls + 1
          /\ (tasks[t].text = "apology" /\ SynthReturnStep(t) /\ wsOpen)
                => PlaybackStarted(t) ]_vars

\* the apology for the first utterance has interrupted the greeting in its loop, is in
\* the history after the user's turn, and its own job has sent its first frame
C37_Witness ==
    /\ phase = "live" /\ wsOpen
    /\ tasks[0].pc = "stream" /\ tasks[0].barged /\ tasks[0].cancelled
    /\ tasks[1].pc = "stream" /\ tasks[1].text = "apology" /\ tasks[1].sent = <<0>>
    /\ conversationHistory = <<[role |-> "assistant", content |-> "greeting"]>> \o ApologyTurns

(***************************************************************************)
(* C38.  One request at a time (Spec): the response collaborator is never  *)
(* called for the call while an earlier call of it for the same call is    *)
(* outstanding; a second flush starts processing only after the first      *)
(* flushed utterance has its response.                                     *)
(***************************************************************************)
AwaitingResponse == { t \in Tasks : tasks[t].pc = "gemini" }

C38_OneResponseRequestAtATime == Cardinality(AwaitingResponse) <= 1

(***************************************************************************)
(* The log streamer, log_streamer.js 52-94.                                *)
(***************************************************************************)
\* the bytes of one line of the log as the logger's file transport appends them
lineBytes(k) == <<k, k, NL>>

\* fs.createReadStream with start and end (68-72): both offsets are inclusive, and
\* the stream ends at the end of the file as it is when it is read
readRange(file, start, end) == SubSeq(file, start + 1, Min(end + 1, Len(file)))

\* String.prototype.trim, 80: line feeds are the only white space of the log
RECURSIVE trimBuffer(_)
trimBuffer(buffer) ==
    IF buffer # <<>> /\ Head(buffer) = NL THEN trimBuffer(Tail(buffer))
    ELSE IF buffer # <<>> /\ buffer[Len(buffer)] = NL
    THEN trimBuffer(SubSeq(buffer, 1, Len(buffer) - 1))
    ELSE buffer

\* String.prototype.split('\n'), 80
RECURSIVE splitLines(_)
splitLines(buffer) ==
    IF \E i \in 1 .. Len(buffer) : buffer[i] = NL
    THEN LET i == CHOOSE i \in 1 .. Len(buffer) :
                     buffer[i] = NL /\ \A j \in 1 .. i - 1 : buffer[j] # NL
         IN  <<SubSeq(buffer, 1, i - 1)>> \o splitLines(SubSeq(buffer, i + 1, Len(buffer)))
    ELSE <<buffer>>

\* the logger appends a line to logs/conversation.log
LogAppend ==
    /\ streamer.appended < MaxLines
    /\ streamer' = [streamer EXCEPT !.appended = streamer.appended + 1,
                                    !.file = streamer.file \o lineBytes(streamer.appended + 1)]
    /\ UNCHANGED <<bridgeVars, codec, calls, dg, ivr>>

\* 52-63: a client requests /stream
StreamConnect ==
    /\ streamer.client = "none"
    /\ streamer' = [streamer EXCEPT !.client = "open",
                                    !.first = streamer.appended + 1,
                                    !.lastSize = Len(streamer.file)]
    /\ UNCHANGED <<bridgeVars, codec, calls, dg, ivr>>

\* 63-73: the interval fires and the callback of fs.stat finds the file grown (the
\* size it reports is the file's when the callback runs); a read stream is created
StreamPoll ==
    /\ streamer.client = "open"
    /\ streamer.nextRead < MaxReads
    /\ Len(streamer.file) > streamer.lastSize
    /\ streamer' = [streamer EXCEPT
                      !.reads[streamer.nextRead] =
                          [pc |-> "open", start |-> streamer.lastSize,
                           end |-> Len(streamer.file), buffer |-> <<>>],
                      !.nextRead = streamer.nextRead + 1]
    /\ UNCHANGED <<bridgeVars, codec, calls, dg, ivr>>

\* 75-77: the stream reads the file and delivers its data
StreamData(r) ==
    /\ streamer.reads[r].pc = "open"
    /\ streamer' = [streamer EXCEPT
                      !.reads[r].pc = "read",
                      !.reads[r].buffer = readRange(streamer.file, streamer.reads[r].start,
                                                    streamer.reads[r].end)]
    /\ UNCHANGED <<bridgeVars, codec, calls, dg, ivr>>

\* 79-85: the stream ends; the lines are written (to a response that was ended at 92
\* nothing is delivered) and lastSize is set
StreamEnd(r) ==
    /\ streamer.reads[r].pc = "read"
    /\ streamer' = [streamer EXCEPT
                      !.reads[r] = [NoRead EXCEPT !.pc = "done"],
                      !.out = IF streamer.client = "open"
                              THEN streamer.out \o splitLines(trimBuffer(streamer.reads[r].buffer))
                              ELSE streamer.out,
                      !.lastSize = streamer.reads[r].end]
    /\ UNCHANGED <<bridgeVars, codec, calls, dg, ivr>>

\* 90-93: the client goes away
StreamClose ==
    /\ streamer.client = "open"
    /\ streamer' = [streamer EXCEPT !.client = "closed"]
    /\ UNCHANGED <<bridgeVars, codec, calls, dg, ivr>>

StreamerNext ==
    \/ LogAppend
    \/ StreamConnect
    \/ StreamPoll
    \/ \E r \in Reads : StreamData(r)
    \/ \E r \in Reads : StreamEnd(r)
    \/ StreamClose

StreamerSpec == Init /\ [][StreamerNext]_vars

(***************************************************************************)
(* C39.  The log streamer (StreamerSpec): the lines written to a connected *)
(* client are the lines appended to the log file after it connected, each  *)
(* once and in the order of the file, with every line up to lastSize       *)
(* written, also when a read is still in progress at the next poll; and    *)
(* lastSize never decreases.                                               *)
(***************************************************************************)
LinesSinceConnect ==
    [i \in 1 .. streamer.appended - streamer.first + 1 |->
        <<streamer.first + i - 1, streamer.first + i - 1>>]

C39_EachLineOnceInOrder ==
    /\ [](streamer.client = "open" =>
             /\ IsPrefix(streamer.out, LinesSinceConnect)
             /\ Len(streamer.out) >= streamer.lastSize \div 3 - (streamer.first - 1))
    /\ [][ streamer'.lastSize >= streamer.lastSize ]_vars

=============================================================================
